---- MODULE Spec2Model ----
(***************************************************************************)
(* A model of the email-finder service: the domain resolver, the pattern   *)
(* generator, the two verifiers (HTTP and CLI) with their bounded-         *)
(* concurrency batch verification, and the FindEmails pipeline.            *)
(*                                                                         *)
(* Go strings are modelled as sequences of one-character strings, so that  *)
(* trimming, lowercasing, splitting and formatting are computed the way    *)
(* the code computes them.                                                 *)
(***************************************************************************)
EXTENDS Integers, Sequences, FiniteSets, TLC

\* ------------------------------------------------------------------------
\* Characters and the string functions of Go's strings package that the
\* code uses.
\* ------------------------------------------------------------------------

LowerSeq ==
    << "a", "b", "c", "d", "e", "f", "g", "h", "i", "j", "k", "l", "m",
       "n", "o", "p", "q", "r", "s", "t", "u", "v", "w", "x", "y", "z" >>

UpperSeq ==
    << "A", "B", "C", "D", "E", "F", "G", "H", "I", "J", "K", "L", "M",
       "N", "O", "P", "Q", "R", "S", "T", "U", "V", "W", "X", "Y", "Z" >>

DigitSeq == << "0", "1", "2", "3", "4", "5", "6", "7", "8", "9" >>

Range(s) == { s[i] : i \in 1..Len(s) }

LowerLetters == Range(LowerSeq)
UpperLetters == Range(UpperSeq)
Digits == Range(DigitSeq)

\* unicode.IsLetter / unicode.IsDigit on the ASCII characters of the model
IsLetter(c) == c \in LowerLetters \cup UpperLetters
IsDigit(c) == c \in Digits

\* unicode.IsSpace on the ASCII characters of the model
IsSpace(c) == c \in { " ", "\t", "\n", "\r" }

ToLowerChar(c) ==
    IF c \in UpperLetters
    THEN LowerSeq[CHOOSE i \in 1..Len(UpperSeq) : UpperSeq[i] = c]
    ELSE c

\* strings.ToLower
ToLower(s) == [ i \in 1..Len(s) |-> ToLowerChar(s[i]) ]

SetMin(S) == CHOOSE x \in S : \A y \in S : x <= y
SetMax(S) == CHOOSE x \in S : \A y \in S : x >= y

\* strings.TrimSpace
TrimSpace(s) ==
    LET keep == { i \in 1..Len(s) : ~IsSpace(s[i]) }
    IN  IF keep = {} THEN << >> ELSE SubSeq(s, SetMin(keep), SetMax(keep))

\* strings.HasPrefix / strings.HasSuffix / strings.TrimSuffix
HasPrefix(s, p) == Len(p) <= Len(s) /\ SubSeq(s, 1, Len(p)) = p
HasSuffix(s, p) == Len(p) <= Len(s) /\ SubSeq(s, Len(s) - Len(p) + 1, Len(s)) = p
TrimSuffix(s, p) == IF HasSuffix(s, p) THEN SubSeq(s, 1, Len(s) - Len(p)) ELSE s

\* strings.Contains for a one-character substring
ContainsChar(s, c) == \E i \in 1..Len(s) : s[i] = c

\* strings.Split(s, sep) for a one-character separator: the pieces between
\* the occurrences of sep, always at least one part
Split(s, sep) ==
    LET at == SelectSeq([ i \in 1..Len(s) |-> i ], LAMBDA i : s[i] = sep)
        cut == << 0 >> \o at \o << Len(s) + 1 >>
    IN  [ k \in 1..(Len(cut) - 1) |-> SubSeq(s, cut[k] + 1, cut[k + 1] - 1) ]

\* strings.Fields: the maximal runs of non-space characters
RECURSIVE FieldsFrom(_, _, _)
FieldsFrom(s, i, cur) ==
    IF i > Len(s) THEN (IF cur = << >> THEN << >> ELSE << cur >>)
    ELSE IF IsSpace(s[i])
         THEN (IF cur = << >> THEN << >> ELSE << cur >>) \o FieldsFrom(s, i + 1, << >>)
         ELSE FieldsFrom(s, i + 1, Append(cur, s[i]))

Fields(s) == FieldsFrom(s, 1, << >>)

\* strings.ReplaceAll(s, c, "") for a one-character c
RemoveChar(s, c) == SelectSeq(s, LAMBDA x : x # c)

\* fmt.Sprintf("%d", n) for n >= 0
RECURSIVE Itoa(_)
Itoa(n) == IF n < 10 THEN << DigitSeq[n + 1] >>
           ELSE Itoa(n \div 10) \o << DigitSeq[(n % 10) + 1] >>

RECURSIVE Flatten(_)
Flatten(ss) == IF ss = << >> THEN << >> ELSE Head(ss) \o Flatten(Tail(ss))

\* ------------------------------------------------------------------------
\* internal/generator: GenerateEmailPatterns and its format validator
\* ------------------------------------------------------------------------

isValidEmailChar(c) ==
    IsLetter(c) \/ IsDigit(c) \/ c = "." \/ c = "_" \/ c = "-" \/ c = "+"

MaxEmailLen == 254
MaxLocalLen == 64
MaxDomainLen == 253

\* (mutant) the characters of the local part are not looked at
isValidEmailFormatAnyLocal(email) ==
    IF Len(email) = 0 \/ Len(email) > MaxEmailLen THEN FALSE
    ELSE LET parts == Split(email, "@")
         IN  IF Len(parts) # 2 THEN FALSE
             ELSE LET local == parts[1]
                      domain == parts[2]
                      domainParts == Split(domain, ".")
                  IN  /\ ~(Len(local) = 0 \/ Len(local) > MaxLocalLen)
                      /\ ~(Len(domain) = 0 \/ Len(domain) > MaxDomainLen)
                      /\ ~(HasPrefix(domain, << "." >>) \/ HasSuffix(domain, << "." >>))
                      /\ Len(domainParts) >= 2
                      /\ \A k \in 1..Len(domainParts) :
                            /\ Len(domainParts[k]) # 0
                            /\ \A i \in 1..Len(domainParts[k]) :
                                  \/ IsLetter(domainParts[k][i])
                                  \/ IsDigit(domainParts[k][i])
                                  \/ domainParts[k][i] = "-"

isValidEmailFormat(email) ==
    IF Len(email) = 0 \/ Len(email) > MaxEmailLen THEN FALSE
    ELSE LET parts == Split(email, "@")
         IN  IF Len(parts) # 2 THEN FALSE
             ELSE LET local == parts[1]
                      domain == parts[2]
                      domainParts == Split(domain, ".")
                  IN  /\ ~(Len(local) = 0 \/ Len(local) > MaxLocalLen)
                      /\ ~(Len(domain) = 0 \/ Len(domain) > MaxDomainLen)
                      /\ \A i \in 1..Len(local) : isValidEmailChar(local[i])
                      /\ ~(HasPrefix(domain, << "." >>) \/ HasSuffix(domain, << "." >>))
                      /\ Len(domainParts) >= 2
                      /\ \A k \in 1..Len(domainParts) :
                            /\ Len(domainParts[k]) # 0
                            /\ \A i \in 1..Len(domainParts[k]) :
                                  \/ IsLetter(domainParts[k][i])
                                  \/ IsDigit(domainParts[k][i])
                                  \/ domainParts[k][i] = "-"

\* One row of patternList: the email and the pattern tag. A tag is the pair
\* << name, number >> standing for the Go string name + number; the base rows
\* carry the empty number.
Tag(name) == << name, << >> >>
Pat(local, domain, tag) == [ Email |-> local \o << "@" >> \o domain, Pattern |-> tag ]

\* the 20 base rows of patternList, in the order of the source
BasePatterns(f, l, fi, li, d) ==
    << Pat(f \o << "." >> \o l, d, Tag("firstname.lastname")),
       Pat(f \o l, d, Tag("firstnamelastname")),
       Pat(fi \o << "." >> \o l, d, Tag("f.lastname")),
       Pat(fi \o l, d, Tag("flastname")),
       Pat(f \o << "." >> \o li, d, Tag("firstname.l")),
       Pat(f \o li, d, Tag("firstnamel")),
       Pat(f, d, Tag("firstname")),
       Pat(l, d, Tag("lastname")),
       Pat(l \o << "." >> \o f, d, Tag("lastname.firstname")),
       Pat(l \o f, d, Tag("lastnamefirstname")),
       Pat(li \o << "." >> \o f, d, Tag("l.firstname")),
       Pat(li \o f, d, Tag("lfirstname")),
       Pat(fi \o << "_" >> \o l, d, Tag("f_lastname")),
       Pat(f \o << "_" >> \o l, d, Tag("firstname_lastname")),
       Pat(l \o << "_" >> \o f, d, Tag("lastname_firstname")),
       Pat(fi \o li, d, Tag("fl")),
       Pat(f \o << "." >> \o fi \o << "." >> \o l, d, Tag("firstname.f.lastname")),
       Pat(l \o << "." >> \o fi, d, Tag("lastname.f")),
       Pat(fi \o << "." >> \o f \o << "." >> \o l, d, Tag("f.firstname.lastname")),
       Pat(f \o << "-" >> \o l, d, Tag("firstname-lastname")) >>

\* the three rows appended for one number; the tag carries the number too
NumberedPatterns(f, l, fi, d, num) ==
    << Pat(f \o << "." >> \o l \o num, d, << "firstname.lastname", num >>),
       Pat(f \o l \o num, d, << "firstnamelastname", num >>),
       Pat(fi \o << "." >> \o l \o num, d, << "f.lastname", num >>) >>

DigitFrom == 0
DigitTo == 9
NumberFrom == 1
NumberTo == 50

RawPatternList(f, l, fi, li, d) ==
    BasePatterns(f, l, fi, li, d)
    \o Flatten([ k \in 1..(DigitTo - DigitFrom + 1) |->
                   NumberedPatterns(f, l, fi, d, << DigitSeq[DigitFrom + k] >>) ])
    \o Flatten([ k \in 1..(NumberTo - NumberFrom + 1) |->
                   NumberedPatterns(f, l, fi, d, Itoa(NumberFrom + k - 1)) ])

\* The final loop: a row is appended when its email is not yet in `seen` and is
\* valid. `seen` holds the emails appended so far, and equal emails are equally
\* valid, so row i is appended exactly when it is valid and no earlier row
\* carries the same email. (Written without recursion: the list has 200 rows.)
\* (mutant) the last row of an email wins, not the first
KeptRowsLast(list) ==
    { i \in 1..Len(list) :
        /\ \A j \in (i + 1)..Len(list) : list[j].Email # list[i].Email
        /\ isValidEmailFormat(list[i].Email) }

KeptRows(list) ==
    { i \in 1..Len(list) :
        /\ \A j \in 1..(i - 1) : list[j].Email # list[i].Email
        /\ isValidEmailFormat(list[i].Email) }

\* the elements of list at the indices of idx, in increasing index order
SubSeqAt(list, idx) ==
    LET order == SelectSeq([ i \in 1..Len(list) |-> i ], LAMBDA i : i \in idx)
    IN  [ k \in 1..Len(order) |-> list[order[k]] ]

DedupValid(list) == SubSeqAt(list, KeptRows(list))

\* (mutant) the domain is trimmed but keeps its upper-case letters
GenerateEmailPatternsDomainAsIs(firstName, lastName, domain) ==
    LET f == TrimSpace(ToLower(firstName))
        l == TrimSpace(ToLower(lastName))
        d == TrimSpace(domain)
    IN  IF f = << >> \/ l = << >> \/ d = << >> THEN << >>
        ELSE DedupValid(RawPatternList(f, l, << f[1] >>, << l[1] >>, d))

\* (mutant) the names are lower-cased but not trimmed before the empty check
GenerateEmailPatternsUntrimmed(firstName, lastName, domain) ==
    LET f == ToLower(firstName)
        l == ToLower(lastName)
        d == TrimSpace(ToLower(domain))
    IN  IF f = << >> \/ l = << >> \/ d = << >> THEN << >>
        ELSE DedupValid(RawPatternList(f, l, << f[1] >>, << l[1] >>, d))

GenerateEmailPatterns(firstName, lastName, domain) ==
    LET f == TrimSpace(ToLower(firstName))
        l == TrimSpace(ToLower(lastName))
        d == TrimSpace(ToLower(domain))
    IN  IF f = << >> \/ l = << >> \/ d = << >> THEN << >>
        ELSE DedupValid(RawPatternList(f, l, << f[1] >>, << l[1] >>, d))

\* ------------------------------------------------------------------------
\* internal/resolver: DomainResolver
\* ------------------------------------------------------------------------

\* the suffixes of normalizeCompanyName, in the order of the source
CompanySuffixes ==
    << << " ", "i", "n", "c" >>,
       << " ", "l", "l", "c" >>,
       << " ", "l", "t", "d" >>,
       << " ", "c", "o", "r", "p" >>,
       << " ", "c", "o", "r", "p", "o", "r", "a", "t", "i", "o", "n" >>,
       << " ", "l", "i", "m", "i", "t", "e", "d" >>,
       << " ", "c", "o", "m", "p", "a", "n", "y" >>,
       << " ", "c", "o" >>,
       << " ", "i", "n", "c", "." >>,
       << " ", "l", "l", "c", "." >>,
       << " ", "l", "t", "d", "." >>,
       << " ", "c", "o", "r", "p", "." >> >>

\* the for loop over suffixes: each is trimmed once, in order, from the
\* result of the previous trims
RECURSIVE TrimSuffixes(_, _)
TrimSuffixes(name, k) ==
    IF k > Len(CompanySuffixes) THEN name
    ELSE TrimSuffixes(TrimSuffix(name, CompanySuffixes[k]), k + 1)

normalizeCompanyName(name) == TrimSpace(TrimSuffixes(ToLower(name), 1))

cleanCompanyName(name) ==
    LET normalized == normalizeCompanyName(name)
        cleaned == SelectSeq(normalized,
                             LAMBDA c : c \in LowerLetters \/ c \in Digits \/ c = " ")
    IN  TrimSpace(RemoveChar(cleaned, " "))

getCompanyVariations(name) ==
    LET words == Fields(name)
    IN  << name >>
        \o (IF Len(words) > 1
            THEN << words[1] >>
                 \o (IF Len(words) >= 2 THEN << words[1] \o words[2] >> ELSE << >>)
            ELSE << >>)

\* the TLDs of generateDomainCandidates, in the order of the source
Tlds ==
    << << "c", "o", "m" >>,
       << "i", "o" >>,
       << "c", "o" >>,
       << "n", "e", "t" >>,
       << "o", "r", "g" >>,
       << "c", "o", ".", "u", "k" >>,
       << "c", "o", "m", ".", "a", "u" >>,
       << "c", "a" >>,
       << "d", "e" >>,
       << "f", "r" >> >>

\* append every element of items not yet in acc (the "Avoid duplicates" loop)
RECURSIVE AppendNew(_, _)
AppendNew(acc, items) ==
    IF items = << >> THEN acc
    ELSE IF \E k \in 1..Len(acc) : acc[k] = Head(items)
         THEN AppendNew(acc, Tail(items))
         ELSE AppendNew(Append(acc, Head(items)), Tail(items))

WithTlds(token) == [ k \in 1..Len(Tlds) |-> token \o << "." >> \o Tlds[k] ]

generateDomainCandidates(companyName) ==
    LET cleaned == cleanCompanyName(companyName)
        variations == getCompanyVariations(cleaned)
    IN  AppendNew(WithTlds(cleaned),
                  Flatten([ v \in 1..Len(variations) |-> WithTlds(variations[v]) ]))

\* (mutant) any white space, not only " ", rules a domain out
isDomainNoWhitespace(input) ==
    IF ContainsChar(input, ".") /\ ~(\E i \in 1..Len(input) : IsSpace(input[i]))
    THEN LET parts == Split(input, ".")
         IN  Len(parts) >= 2 /\ Len(parts[Len(parts)]) >= 2
    ELSE FALSE

isDomain(input) ==
    IF ContainsChar(input, ".") /\ ~ContainsChar(input, " ")
    THEN LET parts == Split(input, ".")
         IN  Len(parts) >= 2 /\ Len(parts[Len(parts)]) >= 2
    ELSE FALSE

\* The DNS of the environment: the domains for which LookupMX returns records,
\* LookupHost succeeds and LookupCNAME succeeds. verifyDomain tries them in
\* that order.
verifyDomain(domain, dns) ==
    IF domain \in dns.mx THEN TRUE
    ELSE IF domain \in dns.host THEN TRUE
    ELSE IF domain \in dns.cname THEN TRUE
    ELSE FALSE

\* Rows of wellKnownCompanies (the table has about a hundred rows of the same
\* shape; these are the ones the requests of the model use).
wellKnownCompanies ==
    { << << "g", "o", "o", "g", "l", "e" >>,
         << "g", "o", "o", "g", "l", "e", ".", "c", "o", "m" >> >>,
      << << "m", "i", "c", "r", "o", "s", "o", "f", "t" >>,
         << "m", "i", "c", "r", "o", "s", "o", "f", "t", ".", "c", "o", "m" >> >>,
      << << "x" >>,
         << "x", ".", "c", "o", "m" >> >>,
      << << "z", "e", "p", "t", "o" >>,
         << "z", "e", "p", "t", "o", "n", "o", "w", ".", "c", "o", "m" >> >>,
      << << "c", "o", "c", "a", " ", "c", "o", "l", "a" >>,
         << "c", "o", "c", "a", "-", "c", "o", "l", "a", ".", "c", "o", "m" >> >>,
      << << "a", "t", "&", "t" >>,
         << "a", "t", "t", ".", "c", "o", "m" >> >> }

\* NewDomainResolver: companyMap is a copy of wellKnownCompanies; a map is the
\* set of its << key, value >> pairs, with one pair per key
NewCompanyMap == wellKnownCompanies

MapHas(m, key) == \E kv \in m : kv[1] = key
MapGet(m, key) == (CHOOSE kv \in m : kv[1] = key)[2]
MapPut(m, key, value) == { kv \in m : kv[1] # key } \cup { << key, value >> }

\* AddCompanyDomain, between Lock and Unlock
AddCompanyDomain(m, companyName, domain) ==
    MapPut(m, normalizeCompanyName(companyName), domain)

\* GetCompanyDomain, between RLock and RUnlock: << domain, exists >>
GetCompanyDomain(m, companyName) ==
    LET normalized == normalizeCompanyName(companyName)
    IN  IF MapHas(m, normalized) THEN << MapGet(m, normalized), TRUE >>
        ELSE << << >>, FALSE >>

DomainResult(domain, resolved, method, candidates) ==
    [ Domain |-> domain, Resolved |-> resolved, Method |-> method,
      Candidates |-> candidates ]

\* the lookups verifyDomain makes for a domain, in the order it makes them:
\* LookupMX, then LookupHost if that gave nothing, then LookupCNAME
LookupsOf(domain, dns) ==
    IF domain \in dns.mx THEN << "mx" >>
    ELSE IF domain \in dns.host THEN << "mx", "host" >>
    ELSE << "mx", "host", "cname" >>

\* (mutant) the loop goes on after a success: the last verified candidate wins
FirstVerifiedLast(candidates, dns) ==
    LET ok == { k \in 1..Len(candidates) : verifyDomain(candidates[k], dns) }
    IN  IF ok = {} THEN 0 ELSE SetMax(ok)

\* the first candidate, in list order, that verifyDomain accepts; 0 when none
FirstVerified(candidates, dns) ==
    LET ok == { k \in 1..Len(candidates) : verifyDomain(candidates[k], dns) }
    IN  IF ok = {} THEN 0 ELSE SetMin(ok)

\* (mutant) the directory is consulted before the domain check
ResolveDomainMapFirst(input, m, dns) ==
    LET companyName == TrimSpace(ToLower(input))
    IN  IF companyName = << >> THEN DomainResult(<< >>, FALSE, "none", << >>)
        ELSE IF GetCompanyDomain(m, companyName)[2]
        THEN DomainResult(GetCompanyDomain(m, companyName)[1], TRUE, "company_map", << >>)
        ELSE IF isDomain(companyName)
        THEN DomainResult(companyName, TRUE, "direct", << >>)
        ELSE LET candidates == generateDomainCandidates(companyName)
                 hit == FirstVerified(candidates, dns)
             IN  IF hit # 0
                 THEN DomainResult(candidates[hit], TRUE, "dns_verified", candidates)
                 ELSE DomainResult(candidates[1], TRUE, "pattern", candidates)

\* (mutant) nothing is returned when no candidate verifies
ResolveDomainNoFallback(input, m, dns) ==
    LET companyName == TrimSpace(ToLower(input))
    IN  IF companyName = << >> THEN DomainResult(<< >>, FALSE, "none", << >>)
        ELSE IF isDomain(companyName)
        THEN DomainResult(companyName, TRUE, "direct", << >>)
        ELSE IF GetCompanyDomain(m, companyName)[2]
        THEN DomainResult(GetCompanyDomain(m, companyName)[1], TRUE, "company_map", << >>)
        ELSE LET candidates == generateDomainCandidates(companyName)
                 hit == FirstVerified(candidates, dns)
             IN  IF hit # 0
                 THEN DomainResult(candidates[hit], TRUE, "dns_verified", candidates)
                 ELSE DomainResult(<< >>, FALSE, "none", candidates)

\* (mutant) the empty organization is not singled out
ResolveDomainNoEmptyCheck(input, m, dns) ==
    LET companyName == TrimSpace(ToLower(input))
    IN  IF isDomain(companyName)
        THEN DomainResult(companyName, TRUE, "direct", << >>)
        ELSE IF GetCompanyDomain(m, companyName)[2]
        THEN DomainResult(GetCompanyDomain(m, companyName)[1], TRUE, "company_map", << >>)
        ELSE LET candidates == generateDomainCandidates(companyName)
                 hit == FirstVerified(candidates, dns)
             IN  IF hit # 0
                 THEN DomainResult(candidates[hit], TRUE, "dns_verified", candidates)
                 ELSE DomainResult(candidates[1], TRUE, "pattern", candidates)

ResolveDomain(input, m, dns) ==
    LET companyName == TrimSpace(ToLower(input))
    IN  IF companyName = << >> THEN DomainResult(<< >>, FALSE, "none", << >>)
        ELSE IF isDomain(companyName)
        THEN (IF verifyDomain(companyName, dns)
              THEN DomainResult(companyName, TRUE, "direct", << >>)
              ELSE DomainResult(companyName, TRUE, "direct", << >>))
        ELSE IF GetCompanyDomain(m, companyName)[2]
        THEN DomainResult(GetCompanyDomain(m, companyName)[1], TRUE, "company_map", << >>)
        ELSE LET candidates == generateDomainCandidates(companyName)
                 hit == FirstVerified(candidates, dns)
             IN  IF hit # 0
                 THEN DomainResult(candidates[hit], TRUE, "dns_verified", candidates)
                 ELSE DomainResult(candidates[1], TRUE, "pattern", candidates)

\* the domains ResolveDomain hands to verifyDomain, in the order of the calls:
\* the input itself when it is a domain (line 607), nothing on a directory
\* hit, else the candidates up to the first one that verifies (lines 639-640)
ResolveProbes(input, m, dns) ==
    LET companyName == TrimSpace(ToLower(input))
    IN  IF companyName = << >> THEN << >>
        ELSE IF isDomain(companyName) THEN << companyName >>
        ELSE IF GetCompanyDomain(m, companyName)[2] THEN << >>
        ELSE LET candidates == generateDomainCandidates(companyName)
                 hit == FirstVerified(candidates, dns)
             IN  IF hit # 0 THEN SubSeq(candidates, 1, hit) ELSE candidates

\* ------------------------------------------------------------------------
\* internal/verifier: the oracle's answers, and VerifyEmail of both verifiers
\* ------------------------------------------------------------------------

\* a nil *VerificationResult, a nil Details map, a nil error
NilResult == [ nil |-> TRUE ]
NilDetails == [ nil |-> TRUE ]
NoErr == "nil"

VerificationResult(email, reachable, valid, deliverable, details) ==
    [ Email |-> email, IsReachable |-> reachable, IsValid |-> valid,
      IsDeliverable |-> deliverable, Details |-> details ]

\* the literal the verifiers build for a candidate they could not verify
UnknownResult(email) == VerificationResult(email, "unknown", FALSE, FALSE, NilDetails)

\* One decoded element of the oracle's JSON: the fields apiResponse reads.
ApiResponse(input, reachable, deliverable, syntax, mx) ==
    [ input |-> input, is_reachable |-> reachable, is_deliverable |-> deliverable,
      is_valid_syntax |-> syntax, accepts_mail |-> mx ]

\* A payload is what json.Unmarshal can make of the bytes: shape "object" (one
\* element), shape "array" (any number of elements) or shape "garbage"
\* (neither). Unmarshal into the struct succeeds on an object only, Unmarshal
\* into the slice on an array only.
Payload(shape, items) == [ shape |-> shape, items |-> items ]
GarbagePayload == Payload("garbage", << >>)

UnmarshalStructOk(body) == body.shape = "object"
UnmarshalSliceOk(body) == body.shape = "array"

\* lines 181-190 and 281-290: the result built from a decoded apiResponse
ResultOf(api) ==
    VerificationResult(api.input, api.is_reachable,
                       api.is_valid_syntax /\ api.accepts_mail, api.is_deliverable,
                       [ syntax_valid |-> api.is_valid_syntax,
                         mx_accepts |-> api.accepts_mail ])

Returned(result, err) == [ result |-> result, err |-> err ]

\* An answer of the HTTP oracle to one request. kind is what happened:
\*   "dispatch_error"  client.Do failed before any response (connection refused)
\*   "timeout"         client.Do failed because the client's Timeout expired
\*   "read_error"      the response body could not be read (the Timeout covers
\*                     the body too)
\*   "non200"          a response whose status is not 200
\*   "ok200"           status 200 with body `body`
HttpAnswer(kind, body) == [ kind |-> kind, body |-> body ]

HTTPVerifyEmail(email, answer) ==
    IF answer.kind \in { "dispatch_error", "timeout" }
    THEN Returned(NilResult, "failed to make request")
    ELSE IF answer.kind = "read_error"
    THEN Returned(NilResult, "failed to read response")
    ELSE IF answer.kind = "non200"
    THEN Returned(UnknownResult(email), NoErr)
    ELSE IF UnmarshalStructOk(answer.body)
    THEN Returned(ResultOf(answer.body.items[1]), NoErr)
    ELSE IF ~UnmarshalSliceOk(answer.body) \/ Len(answer.body.items) = 0
    THEN Returned(NilResult, "failed to parse response")
    ELSE Returned(ResultOf(answer.body.items[1]), NoErr)

\* An answer of the CLI oracle to one invocation. kind is what happened:
\*   "exec_error"  cmd.Output failed and the context's deadline had not expired
\*                 (the binary cannot be started, or exits non-zero)
\*   "timeout"     cmd.Output failed and ctx.Err() is DeadlineExceeded
\*   "exit0"       the process ended normally with output `body`
CliAnswer(kind, body) == [ kind |-> kind, body |-> body ]

\* (mutant) output that does not parse is taken for an unknown outcome
CLIVerifyEmailLenient(email, answer) ==
    IF answer.kind = "timeout"
    THEN Returned(UnknownResult(email), NoErr)
    ELSE IF answer.kind = "exec_error"
    THEN Returned(NilResult, "failed to execute CLI")
    ELSE IF ~UnmarshalStructOk(answer.body)
    THEN Returned(UnknownResult(email), NoErr)
    ELSE Returned(ResultOf(answer.body.items[1]), NoErr)

CLIVerifyEmail(email, answer) ==
    IF answer.kind = "timeout"
    THEN Returned(UnknownResult(email), NoErr)
    ELSE IF answer.kind = "exec_error"
    THEN Returned(NilResult, "failed to execute CLI")
    ELSE IF ~UnmarshalStructOk(answer.body)
    THEN Returned(NilResult, "failed to parse CLI output")
    ELSE Returned(ResultOf(answer.body.items[1]), NoErr)

VerifyEmail(kind, email, answer) ==
    IF kind = "http" THEN HTTPVerifyEmail(email, answer)
    ELSE CLIVerifyEmail(email, answer)

\* (mutant) the task forgets to replace the result of a failed call
HTTPTaskResultNoFallback(emailAddr, answer) == HTTPVerifyEmail(emailAddr, answer).result

\* HTTPVerifier.VerifyEmailsBatch, lines 214-226: the result one task computes
HTTPTaskResult(emailAddr, answer) ==
    LET r == HTTPVerifyEmail(emailAddr, answer)
    IN  IF r.err # NoErr THEN UnknownResult(emailAddr) ELSE r.result

\* CLIVerifier.VerifyEmailsBatch, lines 324-391: the inlined verification
CLITaskResult(emailAddr, answer) ==
    IF answer.kind = "timeout" THEN UnknownResult(emailAddr)
    ELSE IF answer.kind = "exec_error" THEN UnknownResult(emailAddr)
    ELSE IF ~UnmarshalStructOk(answer.body) THEN UnknownResult(emailAddr)
    ELSE ResultOf(answer.body.items[1])

TaskResult(kind, emailAddr, answer) ==
    IF kind = "http" THEN HTTPTaskResult(emailAddr, answer)
    ELSE CLITaskResult(emailAddr, answer)

\* ------------------------------------------------------------------------
\* internal/service: EmailFinderService
\* ------------------------------------------------------------------------

FindEmailRequest(first, last, company) ==
    [ FirstName |-> first, LastName |-> last, Company |-> company ]

EmailResult(email, pattern, reachable, valid, deliverable, confidence) ==
    [ Email |-> email, Pattern |-> pattern, IsReachable |-> reachable,
      IsValid |-> valid, IsDeliverable |-> deliverable, Confidence |-> confidence ]

FindEmailResponse(found, checked, total, domain, resolved, req) ==
    [ FoundEmails |-> found, TotalChecked |-> checked, TotalFound |-> total,
      Domain |-> domain, DomainResolved |-> resolved, Request |-> req ]

NilResponse == [ nil |-> TRUE ]

\* (mutant) the first row of the table does not look at IsDeliverable
calculateConfidenceSafeHigh(result) ==
    IF result.IsReachable = "safe" THEN "high"
    ELSE IF result.IsReachable = "risky" /\ result.IsDeliverable THEN "medium"
    ELSE IF result.IsValid THEN "low"
    ELSE "low"

calculateConfidence(result) ==
    IF result.IsReachable = "safe" /\ result.IsDeliverable THEN "high"
    ELSE IF result.IsReachable = "risky" /\ result.IsDeliverable THEN "medium"
    ELSE IF result.IsValid THEN "low"
    ELSE "low"

\* (mutant) the low entries are collected in front of each other
sortByConfidenceUnstable(emails) ==
    LET high == SelectSeq(emails, LAMBDA e : e.Confidence = "high")
        medium == SelectSeq(emails, LAMBDA e : e.Confidence = "medium")
        low == SelectSeq(emails, LAMBDA e : e.Confidence \notin { "high", "medium" })
    IN  high \o medium \o [ k \in 1..Len(low) |-> low[Len(low) + 1 - k] ]

sortByConfidence(emails) ==
    LET high == SelectSeq(emails, LAMBDA e : e.Confidence = "high")
        medium == SelectSeq(emails, LAMBDA e : e.Confidence = "medium")
        low == SelectSeq(emails, LAMBDA e : e.Confidence \notin { "high", "medium" })
    IN  high \o medium \o low

\* (mutant) a risky outcome is kept whether deliverable or not
IsFoundAnyRisky(result) == result.IsReachable \in { "safe", "risky" }

\* line 130: the condition under which a verification result is kept
IsFound(result) ==
    /\ result.IsReachable # "unknown"
    /\ \/ result.IsReachable = "safe"
       \/ (result.IsReachable = "risky" /\ result.IsDeliverable)

\* (mutant) the limit keeps the last maxPatterns patterns
LimitPatternsLast(patterns, maxPatterns) ==
    IF maxPatterns > 0 /\ Len(patterns) > maxPatterns
    THEN SubSeq(patterns, Len(patterns) - maxPatterns + 1, Len(patterns))
    ELSE patterns

\* lines 94-97: the limit on the number of patterns
LimitPatterns(patterns, maxPatterns) ==
    IF maxPatterns > 0 /\ Len(patterns) > maxPatterns
    THEN SubSeq(patterns, 1, maxPatterns)
    ELSE patterns

\* lines 111-116: emailToPattern[email]; the last pattern written for the
\* email, the empty string when the map has no such key
NoPattern == Tag("")
EmailToPattern(patterns, email) ==
    LET at == { k \in 1..Len(patterns) : patterns[k].Email = email }
    IN  IF at = {} THEN NoPattern ELSE patterns[SetMax(at)].Pattern

EmailsOf(patterns) == [ k \in 1..Len(patterns) |-> patterns[k].Email ]

\* lines 127-141: the loop over verificationResults
FoundEmailsOf(verificationResults, patterns) ==
    LET kept == SelectSeq(verificationResults, IsFound)
    IN  [ k \in 1..Len(kept) |->
            EmailResult(kept[k].Email, EmailToPattern(patterns, kept[k].Email),
                        kept[k].IsReachable, kept[k].IsValid, kept[k].IsDeliverable,
                        calculateConfidence(kept[k])) ]

\* lines 119-158: what FindEmails returns once VerifyEmailsBatch has returned
\* `ret` for the patterns of `domain`
FindEmailsAfterBatch(req, domain, patterns, ret) ==
    IF ret.err # NoErr THEN Returned(NilResponse, ret.err)
    ELSE LET foundEmails == sortByConfidence(FoundEmailsOf(ret.result, patterns))
         IN  Returned(FindEmailResponse(foundEmails, Len(patterns), Len(foundEmails),
                                        domain, TRUE, req),
                      NoErr)

\* lines 64-108: the part of FindEmails before the verification. It either
\* returns (returns = TRUE) or goes on to verify `patterns`.
FindEmailsBeforeBatch(req, m, dns, maxPatterns) ==
    LET domainResult == ResolveDomain(req.Company, m, dns)
        domain == domainResult.Domain
        patterns == LimitPatterns(
                        GenerateEmailPatterns(req.FirstName, req.LastName, domain),
                        maxPatterns)
    IN  IF ~domainResult.Resolved \/ domain = << >>
        THEN [ returns |-> TRUE, domainResult |-> domainResult,
               domain |-> << >>, patterns |-> << >>,
               ret |-> Returned(FindEmailResponse(<< >>, 0, 0, << >>, FALSE, req), NoErr) ]
        ELSE IF Len(patterns) = 0
        THEN [ returns |-> TRUE, domainResult |-> domainResult,
               domain |-> domain, patterns |-> << >>,
               ret |-> Returned(FindEmailResponse(<< >>, 0, 0, domain, TRUE, req), NoErr) ]
        ELSE [ returns |-> FALSE, domainResult |-> domainResult,
               domain |-> domain, patterns |-> patterns,
               ret |-> Returned(NilResponse, NoErr) ]

\* ------------------------------------------------------------------------
\* The state
\* ------------------------------------------------------------------------

VARIABLES
    verifierKind,   \* "http" or "cli": which Verifier main.go constructed
    concurrency,    \* the verifier's concurrency
    maxPatterns,    \* the service's maxPatterns
    companyMap,     \* DomainResolver.companyMap
    dns,            \* the DNS of the environment
    call,           \* the call being made: [op, req] or [op, emails]
    fpc,            \* where FindEmails is: "none", "start", "verifying", "done"
    domain,         \* FindEmails: the resolved domain
    patterns,       \* FindEmails: the patterns under verification
    response,       \* what FindEmails (or the call observed) returned:
                    \* [result, err]
    bpc,            \* where VerifyEmailsBatch is: "none", "entry", "loop",
                    \* "wait", "returned"
    emails,         \* VerifyEmailsBatch: its argument
    spawned,        \* VerifyEmailsBatch: the goroutines started by the loop
    tpc,            \* per goroutine: "start", "acquired", "written",
                    \* "released", "done"
    semaphore,      \* the number of elements in the semaphore channel
    wg,             \* the WaitGroup's counter
    results,        \* the results slice
    batchRet,       \* what VerifyEmailsBatch returned: [result, err]
    oracleLog,      \* per goroutine: the answers the oracle gave to its calls
    single,         \* a single VerifyEmail call: [kind, email, answer, ret]
    domainResult,   \* what ResolveDomain returned last
    probes,         \* the domains that call handed to verifyDomain, in order
    lastAdd,        \* the last AddCompanyDomain call: [name, domain]
    mapMutex,       \* DomainResolver.mapMutex: [w, r], the goroutine holding
                    \* the write lock (0 when none) and those holding a
                    \* read lock
    procs           \* the goroutines calling the resolver concurrently:
                    \* per goroutine [op, arg, domain, pc, seen, raced, ret]

vars ==
    << verifierKind, concurrency, maxPatterns, companyMap, dns, call, fpc, domain,
       patterns, response, bpc, emails, spawned, tpc, semaphore, wg, results,
       batchRet, oracleLog, single, domainResult, probes, lastAdd, mapMutex,
       procs >>

configVars == << verifierKind, concurrency, maxPatterns, companyMap, dns, call >>
findVars == << fpc, domain, patterns, response >>
batchVars == << bpc, emails, spawned, tpc, semaphore, wg, results, batchRet, oracleLog >>

resolveVars == << domainResult, probes, lastAdd, mapMutex, procs >>

NotReturned == [ pending |-> TRUE ]
NoCall == [ op |-> "none" ]
NoDns == [ mx |-> {}, host |-> {}, cname |-> {} ]

\* a sync.RWMutex nobody holds
FreeMutex == [ w |-> 0, r |-> {} ]

\* ------------------------------------------------------------------------
\* Bounds and inputs
\* ------------------------------------------------------------------------

\* the largest concurrency and the largest maxPatterns the model runs
MaxConcurrency == 2
MaxPatterns == 3

\* NewHTTPVerifier / NewCLIVerifier: a concurrency <= 0 becomes 10
DefaultConcurrency == 10
NewVerifierConcurrency(c) == IF c <= 0 THEN DefaultConcurrency ELSE c

Requests ==
    { \* resolved by the company map, candidates generated
      FindEmailRequest(<< "A", "l" >>, << "W", "u" >>, << "X", " ", "I", "n", "c" >>),
      \* resolved, but the first name is empty once trimmed
      FindEmailRequest(<< " " >>, << "W", "u" >>, << "x" >>),
      \* resolved by pattern to ".com", on which no email is valid
      FindEmailRequest(<< "A", "l" >>, << "W", "u" >>, << "!" >>),
      \* a company that is empty once trimmed: not resolved
      FindEmailRequest(<< "A", "l" >>, << "W", "u" >>, << " " >>),
      \* names of which only the initials can stand in an email: one candidate
      FindEmailRequest(<< "O", "'", "a" >>, << "W", "'", "u" >>, << "x" >>) }

\* argument lists of a direct VerifyEmailsBatch call
DirectBatches ==
    { << >>,
      << << "a", "@", "x", ".", "i", "o" >>, << "a", "@", "x", ".", "i", "o" >> >> }

\* The oracle's answers in the concurrent model: every kind of failure, and
\* answers of both shapes about the email asked for.
HttpAnswers(email) ==
    { HttpAnswer("dispatch_error", GarbagePayload),
      HttpAnswer("timeout", GarbagePayload),
      HttpAnswer("ok200", GarbagePayload),
      HttpAnswer("ok200", Payload("object", << ApiResponse(email, "safe", TRUE, TRUE, TRUE) >>)),
      HttpAnswer("ok200", Payload("array", << ApiResponse(email, "risky", FALSE, TRUE, TRUE) >>)) }

CliAnswers(email) ==
    { CliAnswer("exec_error", GarbagePayload),
      CliAnswer("timeout", GarbagePayload),
      CliAnswer("exit0", GarbagePayload),
      CliAnswer("exit0", Payload("object", << ApiResponse(email, "safe", TRUE, TRUE, TRUE) >>)),
      CliAnswer("exit0", Payload("object", << ApiResponse(email, "risky", FALSE, TRUE, TRUE) >>)) }

Answers(kind, email) == IF kind = "http" THEN HttpAnswers(email) ELSE CliAnswers(email)

\* ------------------------------------------------------------------------
\* Spec: one call of FindEmails, or of VerifyEmailsBatch directly, with the
\* goroutines of the batch interleaved
\* ------------------------------------------------------------------------

BatchIdle ==
    /\ emails = << >>
    /\ spawned = 0
    /\ tpc = << >>
    /\ semaphore = 0
    /\ wg = 0
    /\ results = << >>
    /\ batchRet = NotReturned
    /\ oracleLog = << >>

Init ==
    /\ verifierKind \in { "http", "cli" }
    /\ concurrency \in { NewVerifierConcurrency(c) : c \in 0..MaxConcurrency }
    /\ maxPatterns \in 1..MaxPatterns
    /\ companyMap = NewCompanyMap
    /\ dns = NoDns
    /\ \/ /\ \E req \in Requests : call = [ op |-> "FindEmails", req |-> req ]
          /\ fpc = "start"
          /\ bpc = "none"
          /\ BatchIdle
       \/ /\ \E list \in DirectBatches : /\ call = [ op |-> "VerifyEmailsBatch" ]
                                         /\ emails = list
          /\ fpc = "none"
          /\ bpc = "entry"
          /\ spawned = 0 /\ tpc = << >> /\ semaphore = 0 /\ wg = 0
          /\ results = << >> /\ batchRet = NotReturned /\ oracleLog = << >>
    /\ domain = << >>
    /\ patterns = << >>
    /\ response = NotReturned
    /\ single = NoCall
    /\ domainResult = NotReturned
    /\ probes = << >>
    /\ lastAdd = NoCall
    /\ mapMutex = FreeMutex
    /\ procs = << >>

\* FindEmails up to its call of VerifyEmailsBatch (lines 57-119)
FindEmailsBegin ==
    /\ fpc = "start"
    /\ \E before \in { FindEmailsBeforeBatch(call.req, companyMap, dns, maxPatterns) } :
          /\ domainResult' = before.domainResult
          /\ domain' = before.domain
          /\ patterns' = before.patterns
          /\ IF before.returns
             THEN /\ response' = before.ret
                  /\ fpc' = "done"
                  /\ UNCHANGED << bpc, emails >>
             ELSE /\ response' = response
                  /\ fpc' = "verifying"
                  /\ bpc' = "entry"
                  /\ emails' = EmailsOf(before.patterns)
    /\ probes' = ResolveProbes(call.req.Company, companyMap, dns)
    /\ UNCHANGED << configVars, spawned, tpc, semaphore, wg, results, batchRet,
                    oracleLog, single, lastAdd, mapMutex, procs >>

\* VerifyEmailsBatch, lines 196-203 (HTTP) and 297-312 (CLI)
BatchEnter ==
    /\ bpc = "entry"
    /\ IF Len(emails) = 0
       THEN /\ batchRet' = Returned(<< >>, NoErr)
            /\ bpc' = "returned"
            /\ UNCHANGED << results, tpc, oracleLog >>
       ELSE /\ results' = [ i \in 1..Len(emails) |-> NilResult ]
            /\ tpc' = [ i \in 1..Len(emails) |-> "unborn" ]
            /\ oracleLog' = [ i \in 1..Len(emails) |-> << >> ]
            /\ bpc' = "loop"
            /\ batchRet' = batchRet
    /\ semaphore' = 0
    /\ wg' = 0
    /\ spawned' = 0
    /\ UNCHANGED << configVars, resolveVars, findVars, emails, single >>

\* one iteration of the loop: wg.Add(1); go func(idx, emailAddr)
Spawn ==
    /\ bpc = "loop"
    /\ spawned < Len(emails)
    /\ wg' = wg + 1
    /\ spawned' = spawned + 1
    /\ tpc' = [ tpc EXCEPT ![spawned + 1] = "start" ]
    /\ bpc' = IF spawned + 1 = Len(emails) THEN "wait" ELSE "loop"
    /\ UNCHANGED << configVars, resolveVars, findVars, emails, semaphore, results, batchRet,
                    oracleLog, single >>

\* (mutant) a semaphore channel made one element too large
CanAcquireOffByOne(held, capacity) == held <= capacity

\* semaphore <- struct{}{} goes through when the channel is not full
CanAcquire(held, capacity) == held < capacity

Acquire(i) ==
    /\ tpc[i] = "start"
    /\ CanAcquire(semaphore, concurrency)
    /\ semaphore' = semaphore + 1
    /\ tpc' = [ tpc EXCEPT ![i] = "acquired" ]
    /\ UNCHANGED << configVars, resolveVars, findVars, bpc, emails, spawned, wg, results,
                    batchRet, oracleLog, single >>

\* (mutant) every goroutine writes the slot of the first one
SlotOfFirst(idx) == 1

\* results[idx] = result: the slot that goroutine idx writes
SlotOf(idx) == idx

\* (mutant) a call that failed or timed out is made again
AfterCallRetry(answer) ==
    IF answer.kind \in { "dispatch_error", "timeout", "read_error", "exec_error" }
    THEN "acquired"
    ELSE "written"

\* where the task goes after its oracle call: there is no loop around the
\* call, so it goes on to its deferred calls whatever the answer was
AfterCall(answer) == "written"

\* the oracle call and the write of its outcome (lines 214-227, 324-392)
Verify(i) ==
    /\ tpc[i] = "acquired"
    /\ \E answer \in Answers(verifierKind, emails[i]) :
          /\ oracleLog' = [ oracleLog EXCEPT ![i] = Append(@, answer) ]
          /\ results' = [ results EXCEPT
                            ![SlotOf(i)] = TaskResult(verifierKind, emails[i], answer) ]
          /\ tpc' = [ tpc EXCEPT ![i] = AfterCall(answer) ]
    /\ UNCHANGED << configVars, resolveVars, findVars, bpc, emails, spawned, semaphore, wg,
                    batchRet, single >>

\* (mutant) the deferred receive is missing: the slot is never given back
ReleaseSlotLeak(held) == held

\* (mutant) the deferred function empties the channel
ReleaseSlotDrain(held) == 0

\* the deferred <-semaphore
ReleaseSlot(held) == held - 1

Release(i) ==
    /\ tpc[i] = "written"
    /\ semaphore' = ReleaseSlot(semaphore)
    /\ tpc' = [ tpc EXCEPT ![i] = "released" ]
    /\ UNCHANGED << configVars, resolveVars, findVars, bpc, emails, spawned, wg, results,
                    batchRet, oracleLog, single >>

\* the deferred wg.Done()
Done(i) ==
    /\ tpc[i] = "released"
    /\ wg' = wg - 1
    /\ tpc' = [ tpc EXCEPT ![i] = "done" ]
    /\ UNCHANGED << configVars, resolveVars, findVars, bpc, emails, spawned, semaphore, results,
                    batchRet, oracleLog, single >>

\* (mutant) wg.Wait() is missing
WaitOverAtOnce(counter) == TRUE

\* wg.Wait() returns when the counter is zero
WaitOver(counter) == counter = 0

\* (mutant) the batch fails when an oracle call could not be dispatched
BatchErrOnDispatch(log) ==
    IF \E i \in 1..Len(log) : \E k \in 1..Len(log[i]) :
          log[i][k].kind \in { "dispatch_error", "exec_error" }
    THEN "failed to verify emails"
    ELSE NoErr

\* the error VerifyEmailsBatch returns: always nil
BatchErr(log) == NoErr

\* wg.Wait(); return results, nil
BatchReturn ==
    /\ bpc = "wait"
    /\ WaitOver(wg)
    /\ batchRet' = Returned(results, BatchErr(oracleLog))
    /\ bpc' = "returned"
    /\ UNCHANGED << configVars, resolveVars, findVars, emails, spawned, tpc, semaphore, wg,
                    results, oracleLog, single >>

\* FindEmails from the return of VerifyEmailsBatch on (lines 119-158)
FindEmailsEnd ==
    /\ fpc = "verifying"
    /\ bpc = "returned"
    /\ response' = FindEmailsAfterBatch(call.req, domain, patterns, batchRet)
    /\ fpc' = "done"
    /\ UNCHANGED << configVars, resolveVars, domain, patterns, batchVars, single >>

Tasks == 1..Len(tpc)

Next ==
    \/ FindEmailsBegin
    \/ BatchEnter
    \/ Spawn
    \/ \E i \in Tasks : Acquire(i)
    \/ \E i \in Tasks : Verify(i)
    \/ \E i \in Tasks : Release(i)
    \/ \E i \in Tasks : Done(i)
    \/ BatchReturn
    \/ FindEmailsEnd

Spec == Init /\ [][Next]_vars

\* ------------------------------------------------------------------------
\* BatchSpec: VerifyEmailsBatch called directly, under fair scheduling
\* ------------------------------------------------------------------------

\* the k-th email of the direct calls: a@x.io, b@x.io, ...
SampleEmail(k) == << LowerSeq[k], "@", "x", ".", "i", "o" >>

\* argument lists of every length up to MaxPatterns
BatchInputs == { [ k \in 1..n |-> SampleEmail(k) ] : n \in 0..MaxPatterns }

\* (the configured concurrency is positive here: the default of 10 is more
\* than the tasks of any batch of BatchInputs, as MaxConcurrency is for the
\* shorter ones)
BatchInit ==
    /\ verifierKind \in { "http", "cli" }
    /\ concurrency \in { NewVerifierConcurrency(c) : c \in 1..MaxConcurrency }
    /\ maxPatterns = 0
    /\ companyMap = NewCompanyMap
    /\ dns = NoDns
    /\ call = [ op |-> "VerifyEmailsBatch" ]
    /\ emails \in BatchInputs
    /\ fpc = "none"
    /\ bpc = "entry"
    /\ spawned = 0 /\ tpc = << >> /\ semaphore = 0 /\ wg = 0
    /\ results = << >> /\ batchRet = NotReturned /\ oracleLog = << >>
    /\ domain = << >>
    /\ patterns = << >>
    /\ response = NotReturned
    /\ single = NoCall
    /\ domainResult = NotReturned
    /\ probes = << >>
    /\ lastAdd = NoCall
    /\ mapMutex = FreeMutex
    /\ procs = << >>

BatchNext ==
    \/ BatchEnter
    \/ Spawn
    \/ \E i \in Tasks : Acquire(i)
    \/ \E i \in Tasks : Verify(i)
    \/ \E i \in Tasks : Release(i)
    \/ \E i \in Tasks : Done(i)
    \/ BatchReturn

\* Fairness: as long as some step can be taken, a step is taken. The Go
\* scheduler runs every runnable goroutine, and the oracle answers every call
\* (with an answer, an error or a timeout). This is weaker than fairness for
\* each goroutine, and no behaviour of the model is infinite.
BatchSpec == BatchInit /\ [][BatchNext]_vars /\ WF_vars(BatchNext)

\* ------------------------------------------------------------------------
\* The batch verifier (C1 - C5)
\* ------------------------------------------------------------------------

\* the goroutines whose oracle call has been made and its outcome stored
Written == { i \in Tasks : tpc[i] \in { "written", "released", "done" } }

\* the goroutines holding a semaphore slot: between acquire and release
InFlight == { i \in Tasks : tpc[i] \in { "acquired", "written" } }

\* the answers after which a task has no oracle outcome to store
FailureKinds == { "dispatch_error", "timeout", "read_error", "exec_error" }
OracleFailed(answer) ==
    \/ answer.kind \in FailureKinds
    \/ answer.body.shape = "garbage"

\* the outcome the oracle's answer describes, field by field
OutcomeInAnswer(answer) ==
    LET api == answer.body.items[1]
    IN  [ Email |-> api.input, IsReachable |-> api.is_reachable,
          IsValid |-> api.is_valid_syntax /\ api.accepts_mail,
          IsDeliverable |-> api.is_deliverable,
          Details |-> [ syntax_valid |-> api.is_valid_syntax,
                        mx_accepts |-> api.accepts_mail ] ]

SyntheticOutcome(email) ==
    [ Email |-> email, IsReachable |-> "unknown", IsValid |-> FALSE,
      IsDeliverable |-> FALSE, Details |-> NilDetails ]

\* what slot i must hold once the oracle has answered `answer` for emails[i]
OutcomeFor(i, answer) ==
    IF OracleFailed(answer) THEN SyntheticOutcome(emails[i]) ELSE OutcomeInAnswer(answer)

\* C1: in every state of a batch, whatever the interleaving, slot i of the
\* results holds the outcome of the one oracle call made for candidate i once
\* that call is over, and is untouched before; the returned list is that
\* slice, so it is index-aligned to the input.
C1_IndexAligned ==
    /\ \A i \in Written :
          /\ Len(oracleLog[i]) = 1
          /\ results[i] = OutcomeFor(i, oracleLog[i][1])
    /\ \A i \in Tasks \ Written : results[i] = NilResult
    /\ (bpc = "returned" /\ emails # << >>) =>
          /\ Len(batchRet.result) = Len(emails)
          /\ \A i \in 1..Len(emails) :
                batchRet.result[i] = OutcomeFor(i, oracleLog[i][1])

\* C1 witness: the second candidate's task is over, with its own outcome in
\* slot 2, before the first candidate's oracle call has been made
C1_Witness ==
    /\ Len(emails) >= 2
    /\ 2 \in Tasks
    /\ emails[1] # emails[2]
    /\ tpc[2] = "done"
    /\ tpc[1] \in { "start", "acquired" }
    /\ ~OracleFailed(oracleLog[2][1])
    /\ results[2].Email = emails[2]
    /\ results[1] = NilResult

\* C2: the number of tasks holding a semaphore slot never exceeds the
\* verifier's concurrency, and equals the number of elements in the channel.
C2_BoundedInFlight ==
    /\ Cardinality(InFlight) <= concurrency
    /\ semaphore = Cardinality(InFlight)

\* C2 witness: every slot is taken and another task waits for one
C2_Witness ==
    /\ Cardinality(InFlight) = concurrency
    /\ \E i \in Tasks : tpc[i] = "start"

\* C3: when the batch has returned, it returned no error; a candidate whose
\* oracle call failed has the synthetic unknown outcome for its own email in
\* its slot, and every other candidate has exactly the outcome in its answer.
C3_FailureIsolated ==
    (bpc = "returned" /\ emails # << >>) =>
        /\ batchRet.err = NoErr
        /\ \A i \in 1..Len(emails) :
              IF OracleFailed(oracleLog[i][1])
              THEN batchRet.result[i] = SyntheticOutcome(emails[i])
              ELSE batchRet.result[i] = OutcomeInAnswer(oracleLog[i][1])

\* C3 witness: a returned batch in which one call failed and another did not
C3_Witness ==
    /\ bpc = "returned"
    /\ \E i, j \in 1..Len(emails) :
          /\ oracleLog[i][1].kind \in { "dispatch_error", "exec_error" }
          /\ ~OracleFailed(oracleLog[j][1])
          /\ batchRet.result[j].IsReachable = "safe"

\* C4: the batch returns only when every task is over: the returned list has
\* one entry per candidate, none of them nil, and no task is still running.
C4_ReturnsAfterAll ==
    bpc = "returned" =>
        /\ Len(batchRet.result) = Len(emails)
        /\ \A i \in 1..Len(emails) :
              /\ batchRet.result[i] # NilResult
              /\ tpc[i] = "done"
        /\ wg = 0

\* C4 witness: a batch of at least two candidates has returned
C4_Witness ==
    /\ bpc = "returned"
    /\ Len(emails) >= 2
    /\ \A i \in 1..Len(emails) : tpc[i] = "done"

\* C5: under fair scheduling and an oracle that answers every call, a batch
\* that was entered returns.
C5_BatchReturns == (bpc = "entry") ~> (bpc = "returned")

\* C5 witness: a batch with more candidates than slots has returned: some
\* task had to wait for a slot held by another
C5_Witness ==
    /\ bpc = "returned"
    /\ Len(emails) > concurrency

\* ------------------------------------------------------------------------
\* The pipeline around the batch (C6, C9)
\* ------------------------------------------------------------------------

\* the answers that stand for "the request could not be dispatched": client.Do
\* failed before any response, the CLI binary could not be started
DispatchFailures == { "dispatch_error", "exec_error" }

\* FindEmails has returned after a batch in which no request was dispatched
NothingDispatched ==
    /\ call.op = "FindEmails"
    /\ fpc = "done"
    /\ bpc = "returned"
    /\ Len(oracleLog) >= 1
    /\ \A i \in 1..Len(oracleLog) : oracleLog[i][1].kind \in DispatchFailures

\* C6 as stated: when no request can be dispatched at all, FindEmails returns
\* an error instead of a successful response.
C6_Original == NothingDispatched => response.err # NoErr

\* C6 as amended: FindEmails returns no error, whatever the oracle did; when
\* no request can be dispatched at all it returns a successful response with
\* no found email, totalChecked the number of candidates and totalFound 0.
C6_Amended ==
    /\ fpc = "done" => response.err = NoErr
    /\ bpc = "returned" => batchRet.err = NoErr
    /\ NothingDispatched =>
          /\ response.err = NoErr
          /\ response.result.FoundEmails = << >>
          /\ response.result.TotalChecked = Len(emails)
          /\ response.result.TotalFound = 0
          /\ response.result.DomainResolved
          /\ response.result.Domain = domain

\* C6 witness: FindEmails has returned after a batch of at least two
\* candidates, none of which could be dispatched
C6_Witness ==
    /\ NothingDispatched
    /\ Len(emails) >= 2
    /\ response.err = NoErr

\* a request with nothing to verify, by its fields: the organization is empty
\* once trimmed (it does not resolve), or a name is empty once trimmed (the
\* generator yields no candidate)
NothingToVerify(req) ==
    \/ TrimSpace(req.Company) = << >>
    \/ TrimSpace(req.FirstName) = << >>
    \/ TrimSpace(req.LastName) = << >>

\* the goroutines that have called the oracle
OracleCalls == { i \in 1..Len(oracleLog) : oracleLog[i] # << >> }

\* a successful response that reports nothing checked and nothing found
ReportsNothing(ret) ==
    /\ ret.err = NoErr
    /\ ret.result.FoundEmails = << >>
    /\ ret.result.TotalChecked = 0
    /\ ret.result.TotalFound = 0

\* C9: the oracle is never called when there is nothing to verify.
\* VerifyEmailsBatch on an empty list makes no oracle call and returns an
\* empty list; FindEmails makes no oracle call and reports totalChecked = 0
\* and totalFound = 0 when the organization does not resolve or the generator
\* yields no candidate (stated on the request's fields, and on what the
\* resolver and the generator produced).
C9_NoOracleCalls ==
    /\ (call.op = "VerifyEmailsBatch" /\ emails = << >>) =>
          /\ OracleCalls = {}
          /\ bpc = "returned" => batchRet = Returned(<< >>, NoErr)
    /\ (call.op = "FindEmails" /\ NothingToVerify(call.req)) =>
          /\ OracleCalls = {}
          /\ fpc = "done" => ReportsNothing(response)
    /\ (call.op = "FindEmails" /\ fpc # "start" /\ (domain = << >> \/ patterns = << >>)) =>
          /\ OracleCalls = {}
          /\ fpc = "done"
          /\ ReportsNothing(response)
          /\ response.result.DomainResolved = (domain # << >>)

\* C9 witness: FindEmails has returned for an organization that resolved and
\* a first name that is empty once trimmed
C9_Witness ==
    /\ call.op = "FindEmails"
    /\ fpc = "done"
    /\ TrimSpace(call.req.FirstName) = << >>
    /\ response.result.DomainResolved
    /\ response.result.TotalChecked = 0
    /\ OracleCalls = {}

\* ------------------------------------------------------------------------
\* SpecOracle: one VerifyEmail call on either verifier, for every answer of
\* the oracle
\* ------------------------------------------------------------------------

\* the longest JSON array the oracle answers with
MaxItems == 2

Reachabilities == { "safe", "risky", "invalid", "unknown", "" }

\* every object the oracle can answer with about `email`, or about no email
ApiResponses(email) ==
    { ApiResponse(input, r, d, s, m) :
        input \in { email, << >> }, r \in Reachabilities,
        d \in BOOLEAN, s \in BOOLEAN, m \in BOOLEAN }

\* the elements of the arrays
ArrayItems(email) ==
    { ApiResponse(email, "safe", TRUE, TRUE, TRUE),
      ApiResponse(email, "invalid", FALSE, TRUE, FALSE) }

Payloads(email) ==
    { GarbagePayload }
    \cup { Payload("object", << api >>) : api \in ApiResponses(email) }
    \cup UNION { { Payload("array", items) : items \in [ 1..n -> ArrayItems(email) ] } :
                 n \in 0..MaxItems }

AllHttpAnswers(email) ==
    { HttpAnswer(kind, GarbagePayload) :
        kind \in { "dispatch_error", "timeout", "read_error", "non200" } }
    \cup { HttpAnswer("ok200", body) : body \in Payloads(email) }

AllCliAnswers(email) ==
    { CliAnswer(kind, GarbagePayload) : kind \in { "exec_error", "timeout" } }
    \cup { CliAnswer("exit0", body) : body \in Payloads(email) }

AllAnswers(kind, email) ==
    IF kind = "http" THEN AllHttpAnswers(email) ELSE AllCliAnswers(email)

OracleInit ==
    /\ verifierKind \in { "http", "cli" }
    /\ concurrency = DefaultConcurrency
    /\ maxPatterns = 0
    /\ companyMap = NewCompanyMap
    /\ dns = NoDns
    /\ call = [ op |-> "VerifyEmail" ]
    /\ fpc = "none"
    /\ bpc = "none"
    /\ BatchIdle
    /\ domain = << >>
    /\ patterns = << >>
    /\ response = NotReturned
    /\ domainResult = NotReturned
    /\ probes = << >>
    /\ lastAdd = NoCall
    /\ mapMutex = FreeMutex
    /\ procs = << >>
    /\ \E answer \in AllAnswers(verifierKind, SampleEmail(1)) :
          single = [ kind |-> verifierKind, email |-> SampleEmail(1),
                     answer |-> answer, ret |-> NotReturned ]

\* v.VerifyEmail(email), with the oracle answering `answer`
CallVerifyEmail ==
    /\ call.op = "VerifyEmail"
    /\ single.ret = NotReturned
    /\ single' = [ single EXCEPT !.ret = VerifyEmail(single.kind, single.email, single.answer) ]
    /\ UNCHANGED << configVars, resolveVars, findVars, batchVars >>

OracleNext == CallVerifyEmail

SpecOracle == OracleInit /\ [][OracleNext]_vars

\* ------------------------------------------------------------------------
\* A single oracle call (C7, C8)
\* ------------------------------------------------------------------------

SingleReturned == single.ret # NotReturned

\* C7 as stated: on either verifier, a VerifyEmail call whose deadline expires
\* returns an outcome with reachability unknown and no error.
C7_Original ==
    (SingleReturned /\ single.answer.kind = "timeout") =>
        /\ single.ret.err = NoErr
        /\ single.ret.result # NilResult
        /\ single.ret.result.IsReachable = "unknown"

\* the payload is malformed for the verifier that receives it: the HTTP
\* verifier decodes an object or a non-empty array, the CLI verifier an object
Malformed(kind, answer) ==
    IF kind = "http"
    THEN /\ answer.kind = "ok200"
         /\ answer.body.shape # "object"
         /\ ~(answer.body.shape = "array" /\ Len(answer.body.items) >= 1)
    ELSE /\ answer.kind = "exit0"
         /\ answer.body.shape # "object"

\* the payload decodes neither as an object nor as a one-element array
MalformedAsStated(answer) ==
    /\ answer.kind \in { "ok200", "exit0" }
    /\ answer.body.shape # "object"
    /\ ~(answer.body.shape = "array" /\ Len(answer.body.items) = 1)

FindShapes ==
    { [ what |-> "answer", reachable |-> r, deliverable |-> d ] :
        r \in Reachabilities, d \in BOOLEAN }
    \cup { [ what |-> w, reachable |-> "", deliverable |-> FALSE ] :
             w \in { "timeout", "garbage" } }
    \cup { [ what |-> "echo", reachable |-> "safe", deliverable |-> TRUE ] }

\* an echo that differs from the email sent: its letters in upper case
Echoed(email) ==
    [ i \in 1..Len(email) |->
        IF \E k \in 1..Len(LowerSeq) : LowerSeq[k] = email[i]
        THEN UpperSeq[CHOOSE k \in 1..Len(LowerSeq) : LowerSeq[k] = email[i]]
        ELSE email[i] ]

\* the answer of that shape about `email`, for either verifier
FindAnswer(kind, email, shape) ==
    LET input == IF shape.what = "echo" THEN Echoed(email) ELSE email
        body == IF shape.what \in { "answer", "echo" }
                THEN Payload("object", << ApiResponse(input, shape.reachable,
                                                      shape.deliverable, TRUE,
                                                      shape.deliverable) >>)
                ELSE GarbagePayload
    IN  IF kind = "http"
        THEN HttpAnswer(IF shape.what = "timeout" THEN "timeout" ELSE "ok200", body)
        ELSE CliAnswer(IF shape.what = "timeout" THEN "timeout" ELSE "exit0", body)

FindAnswers(kind, email) == { FindAnswer(kind, email, shape) : shape \in FindShapes }

\* the answers to a batch of n emails: every combination of shapes up to
\* MaxPatterns emails, the same shape for every email of a longer batch
BatchShapes(n) ==
    IF n <= MaxPatterns THEN [ 1..n -> FindShapes ]
    ELSE { [ i \in 1..n |-> shape ] : shape \in FindShapes }

\* (maxPatterns 0 is "no limit": the whole generator output is verified)
FindInit ==
    /\ verifierKind \in { "http", "cli" }
    /\ concurrency = DefaultConcurrency
    /\ maxPatterns \in 0..MaxPatterns
    /\ companyMap = NewCompanyMap
    /\ dns = NoDns
    /\ \E req \in Requests : call = [ op |-> "FindEmails", req |-> req ]
    /\ fpc = "start"
    /\ bpc = "none"
    /\ BatchIdle
    /\ domain = << >>
    /\ patterns = << >>
    /\ response = NotReturned
    /\ single = NoCall
    /\ domainResult = NotReturned
    /\ probes = << >>
    /\ lastAdd = NoCall
    /\ mapMutex = FreeMutex
    /\ procs = << >>

\* VerifyEmailsBatch from entry to return: every task has called the oracle
\* once and stored its result in its own slot
VerifyEmailsBatch ==
    /\ bpc = "entry"
    /\ \E shapes \in BatchShapes(Len(emails)) :
          LET answers == [ i \in 1..Len(emails) |->
                             FindAnswer(verifierKind, emails[i], shapes[i]) ]
          IN  /\ oracleLog' = [ i \in 1..Len(emails) |-> << answers[i] >> ]
              /\ results' = [ i \in 1..Len(emails) |->
                                TaskResult(verifierKind, emails[i], answers[i]) ]
              /\ batchRet' = Returned(results', BatchErr(oracleLog'))
    /\ tpc' = [ i \in 1..Len(emails) |-> "done" ]
    /\ spawned' = Len(emails)
    /\ bpc' = "returned"
    /\ UNCHANGED << configVars, resolveVars, findVars, emails, semaphore, wg, single >>

FindNext ==
    \/ FindEmailsBegin
    \/ VerifyEmailsBatch
    \/ FindEmailsEnd

SpecFind == FindInit /\ [][FindNext]_vars

\* ------------------------------------------------------------------------
\* The filter of FindEmails (C10)
\* ------------------------------------------------------------------------

\* the rule as the claim states it
Kept(reachability, deliverable) ==
    \/ reachability = "safe"
    \/ reachability = "risky" /\ deliverable

\* what the filter has to carry over from an outcome
Carried(r) ==
    [ Email |-> r.Email, IsReachable |-> r.IsReachable, IsValid |-> r.IsValid,
      IsDeliverable |-> r.IsDeliverable ]

Occurrences(list, x) == Cardinality({ k \in 1..Len(list) : Carried(list[k]) = x })

\* C10: once FindEmails has returned, an outcome of the batch appears in
\* foundEmails (as often as in the batch) if its reachability is safe, or
\* risky with deliverable true, and does not appear otherwise; nothing else
\* appears; a candidate whose call failed or timed out is never found.
C10_FilterRule ==
    (fpc = "done" /\ bpc = "returned") =>
        LET found == response.result.FoundEmails
            outcomes == batchRet.result
        IN  /\ response.err = NoErr
            /\ \A k \in 1..Len(outcomes) :
                  Occurrences(found, Carried(outcomes[k])) =
                     IF Kept(outcomes[k].IsReachable, outcomes[k].IsDeliverable)
                     THEN Occurrences(outcomes, Carried(outcomes[k]))
                     ELSE 0
            /\ \A k \in 1..Len(found) :
                  /\ Kept(found[k].IsReachable, found[k].IsDeliverable)
                  /\ Occurrences(outcomes, Carried(found[k])) >= 1
            /\ \A i \in 1..Len(emails) :
                  OracleFailed(oracleLog[i][1]) =>
                     \A k \in 1..Len(found) : found[k].Email # emails[i]
            /\ response.result.TotalFound = Len(found)

\* C10 witness: FindEmails has returned after a batch with a safe outcome, a
\* risky outcome that is not deliverable and a timed-out call; one is found
C10_Witness ==
    /\ fpc = "done"
    /\ bpc = "returned"
    /\ Len(batchRet.result) = 3
    /\ batchRet.result[1].IsReachable = "risky" /\ ~batchRet.result[1].IsDeliverable
    /\ batchRet.result[2].IsReachable = "safe"
    /\ oracleLog[3][1].kind = "timeout"
    /\ Len(response.result.FoundEmails) = 1
    /\ response.result.FoundEmails[1].Email = emails[2]

\* ------------------------------------------------------------------------
\* SpecResolve: the DomainResolver on its own, under every DNS of DnsWorlds.
\* ResolveDomain only reads the resolver, so a behaviour is any sequence of
\* AddCompanyDomain calls followed by the ResolveDomain call that is observed.
\* ------------------------------------------------------------------------

\* what the DNS holds: nothing; an MX record for the second candidate of
\* "acme"; addresses for acme.com and example.com; a CNAME for x.com; and
\* records of the three kinds for three candidates of "acme", the earliest
\* candidate having an address only
DnsWorlds ==
    { NoDns,
      [ mx |-> { << "a", "c", "m", "e", ".", "c", "o" >> }, host |-> { << "a", "c", "m", "e", ".", "i", "o" >> },
        cname |-> { << "a", "c", "m", "e", ".", "n", "e", "t" >> } ],
      [ mx |-> { << "a", "c", "m", "e", ".", "i", "o" >> }, host |-> {}, cname |-> {} ],
      [ mx |-> {}, host |-> { << "a", "c", "m", "e", ".", "c", "o", "m" >>, << "e", "x", "a", "m", "p", "l", "e", ".", "c", "o", "m" >> }, cname |-> {} ],
      [ mx |-> {}, host |-> {}, cname |-> { << "x", ".", "c", "o", "m" >> } ] }

\* the legal-entity suffix words
SuffixWords ==
    << << "i", "n", "c" >>,
       << "l", "l", "c" >>,
       << "l", "t", "d" >>,
       << "c", "o", "r", "p" >>,
       << "c", "o", "r", "p", "o", "r", "a", "t", "i", "o", "n" >>,
       << "l", "i", "m", "i", "t", "e", "d" >>,
       << "c", "o", "m", "p", "a", "n", "y" >>,
       << "c", "o" >> >>

\* a directory name followed by a suffix word, with and without a period
SuffixedNames(base) ==
    { base \o << " " >> \o SuffixWords[k] \o dot :
        k \in 1..Len(SuffixWords), dot \in { << >>, << "." >> } }

\* names given to AddCompanyDomain
AddNames ==
    { << "x", ".", "c", "o", "m" >>,
      << "A", "c", "m", "e", " ", "I", "n", "c", " " >>,
      << "A", "C", "M", "E", " ", "C", "o", "r", "p", "." >> }

AddDomains == { << "a", "c", "m", "e", ".", "i", "o" >>, << "t", "w", "i", "t", "t", "e", "r", ".", "c", "o", "m" >> }

\* organization strings given to ResolveDomain
ResolveInputs ==
    { << >>, << " ", "\t" >>,
      << "e", "x", "a", "m", "p", "l", "e", ".", "c", "o", "m" >>, << " ", "E", "x", "a", "m", "p", "l", "e", ".", "C", "O", "M" >>, << "x", ".", "c", "o", "m" >>,
      << "a", "\t", "b", ".", "c", "o", "m" >>, << "e", "x", "a", "m", "p", "l", "e", ".", "c" >>, << "a", " ", "b", ".", "c", "o", "m" >>,
      << "Z", "e", "p", "t", "o" >>, << "M", "i", "c", "r", "o", "s", "o", "f", "t" >>, << "A", "c", "m", "e" >>, << "A", "c", "m", "e", " ", "C", "o", "r", "p", "o", "r", "a", "t", "i", "o", "n" >>, << "!" >>,
      << "B", "l", "u", "e", " ", "S", "k", "y", " ", "L", "a", "b", "s" >>,
      << "&", " ", "C", "o" >>, << "I", "n", "c" >> }
    \cup SuffixedNames(<< "M", "i", "c", "r", "o", "s", "o", "f", "t" >>)
    \cup AddNames

ResolveInit ==
    /\ verifierKind = "http"
    /\ concurrency = DefaultConcurrency
    /\ maxPatterns = 0
    /\ companyMap = NewCompanyMap
    /\ dns \in DnsWorlds
    /\ call = NoCall
    /\ fpc = "none"
    /\ bpc = "none"
    /\ BatchIdle
    /\ domain = << >>
    /\ patterns = << >>
    /\ response = NotReturned
    /\ single = NoCall
    /\ domainResult = NotReturned
    /\ probes = << >>
    /\ lastAdd = NoCall
    /\ mapMutex = FreeMutex
    /\ procs = << >>

\* r.AddCompanyDomain(companyName, domain)
CallAddCompanyDomain ==
    \E companyName \in AddNames, d \in AddDomains :
       /\ call.op # "ResolveDomain"
       /\ companyMap' = AddCompanyDomain(companyMap, companyName, d)
       /\ call' = [ op |-> "AddCompanyDomain", name |-> companyName, domain |-> d ]
       /\ lastAdd' = [ name |-> companyName, domain |-> d ]
       /\ UNCHANGED << verifierKind, concurrency, maxPatterns, dns, findVars,
                       batchVars, single, domainResult, probes, mapMutex, procs >>

\* r.ResolveDomain(companyName)
CallResolveDomain ==
    \E input \in ResolveInputs :
       /\ call.op # "ResolveDomain"
       /\ domainResult' = ResolveDomain(input, companyMap, dns)
       /\ probes' = ResolveProbes(input, companyMap, dns)
       /\ call' = [ op |-> "ResolveDomain", input |-> input ]
       /\ UNCHANGED << verifierKind, concurrency, maxPatterns, companyMap, dns,
                       findVars, batchVars, single, lastAdd, mapMutex, procs >>

ResolveNext ==
    \/ CallAddCompanyDomain
    \/ CallResolveDomain

SpecResolve == ResolveInit /\ [][ResolveNext]_vars

\* ------------------------------------------------------------------------
\* The domain resolver (C13 - C19)
\* ------------------------------------------------------------------------

\* a ResolveDomain call has returned; Org is its argument, trimmed and
\* lower-cased
Resolving == call.op = "ResolveDomain"
Org == TrimSpace(ToLower(call.input))

\* the directory has an entry for the organization, and what it holds
InDirectory == MapHas(companyMap, normalizeCompanyName(Org))
DirectoryDomain == MapGet(companyMap, normalizeCompanyName(Org))

\* the string looks like a domain: none of the characters of `blanks`, a
\* ".", and at least two characters after the last "."
LooksLikeDomain(name, blanks) ==
    /\ \A i \in 1..Len(name) : name[i] \notin blanks
    /\ \E i \in 1..Len(name) : name[i] = "."
    /\ Len(name) - SetMax({ i \in 1..Len(name) : name[i] = "." }) >= 2

C14_Original ==
    (Resolving /\ Org # << >> /\ InDirectory) =>
        /\ domainResult.Method = "company_map"
        /\ domainResult.Domain = DirectoryDomain

Whitespace == { " ", "\t", "\n", "\r" }

\* C15 as stated: the result is direct, with the trimmed lower-cased input as
\* domain, exactly when that input has no white space, has a "." and a final
\* label of length >= 2.
C15_Original ==
    Resolving =>
        (domainResult = DomainResult(Org, TRUE, "direct", << >>)
            <=> LooksLikeDomain(Org, Whitespace))

\* C15 as amended: the result is direct, with the trimmed lower-cased input
\* as domain, exactly when that input has no space character " ", has a "."
\* and a final label of length >= 2 (a tab or newline inside the input does
\* not prevent it); the DNS check does not change the result.
C15_Amended ==
    Resolving =>
        /\ domainResult = DomainResult(Org, TRUE, "direct", << >>)
              <=> LooksLikeDomain(Org, { " " })
        /\ domainResult.Method = "direct" <=> LooksLikeDomain(Org, { " " })
        /\ LooksLikeDomain(Org, { " " }) => probes = << Org >>

\* C15 witness: an input with a tab inside has been resolved as direct, and
\* the DNS has no record of it
C15_Witness ==
    /\ Resolving
    /\ \E i \in 1..Len(Org) : Org[i] = "\t"
    /\ domainResult.Method = "direct"
    /\ ~verifyDomain(Org, dns)

\* C17 as stated: a directory name followed by one of the suffixes inc, llc,
\* ltd, corp, corporation, limited, company, co, with or without a trailing
\* period, resolves via company_map to the domain of the bare name.
C17_Original ==
    (Resolving /\ call.input \in SuffixedNames(<< "M", "i", "c", "r", "o", "s", "o", "f", "t" >>)) =>
        domainResult =
            DomainResult(MapGet(companyMap, << "m", "i", "c", "r", "o", "s", "o", "f", "t" >>), TRUE, "company_map", << >>)

\* C18 as stated: after AddCompanyDomain(name, domain), ResolveDomain of the
\* same name string (not empty, not a direct domain) returns that domain with
\* method company_map, as long as no later add has been made.
C18_Original ==
    (Resolving /\ lastAdd # NoCall) =>
        ((call.input = lastAdd.name /\ Org # << >> /\ ~LooksLikeDomain(Org, { " " })) =>
            domainResult = DomainResult(lastAdd.domain, TRUE, "company_map", << >>))

\* no generated candidate has a DNS record
NoneVerifies ==
    \A k \in 1..Len(generateDomainCandidates(Org)) :
        LET c == generateDomainCandidates(Org)[k]
        IN  c \notin dns.mx /\ c \notin dns.host /\ c \notin dns.cname

\* C19: when the input is neither a domain nor in the directory and no
\* generated candidate passes the DNS check, ResolveDomain returns
\* resolved = true with method pattern, the first candidate (base token +
\* ".com") as domain and the full candidate list, every one of them probed.
C19_PatternFallback ==
    (Resolving /\ Org # << >> /\ ~LooksLikeDomain(Org, { " " }) /\ ~InDirectory
       /\ NoneVerifies) =>
        /\ domainResult.Resolved
        /\ domainResult.Method = "pattern"
        /\ domainResult.Domain = cleanCompanyName(Org) \o << ".", "c", "o", "m" >>
        /\ domainResult.Domain = domainResult.Candidates[1]
        /\ domainResult.Candidates = generateDomainCandidates(Org)
        /\ Len(domainResult.Candidates) >= Len(Tlds)
        /\ probes = domainResult.Candidates

\* C19 witness: "Acme Corporation" has been resolved to acme.com by pattern
\* under a DNS that knows none of its candidates
C19_Witness ==
    /\ Resolving
    /\ call.input = << "A", "c", "m", "e", " ", "C", "o", "r", "p", "o", "r", "a", "t", "i", "o", "n" >>
    /\ NoneVerifies
    /\ domainResult.Method = "pattern"
    /\ domainResult.Domain = << "a", "c", "m", "e", ".", "c", "o", "m" >>
    /\ Len(probes) = Len(Tlds)

\* ------------------------------------------------------------------------
\* The ranking of FindEmails (C11, C12), checked under SpecFind
\* ------------------------------------------------------------------------

\* FindEmails has returned after a batch
Ranked == fpc = "done" /\ bpc = "returned" /\ response.err = NoErr

\* the decision table, top to bottom
TierOf(reachability, deliverable) ==
    IF reachability = "safe" /\ deliverable THEN "high"
    ELSE IF reachability = "risky" /\ deliverable THEN "medium"
    ELSE "low"

\* the tiers of the entries of a list, in order
TiersOf(list) == [ k \in 1..Len(list) |-> list[k].Confidence ]

\* C11: every kept outcome gets the tier of the first matching row: safe and
\* deliverable -> high, risky and deliverable -> medium, any other kept
\* outcome (safe and not deliverable) -> low; every kept outcome is in
\* foundEmails with that tier.
C11_ConfidenceTier ==
    Ranked =>
        LET found == response.result.FoundEmails
            outcomes == batchRet.result
        IN  /\ \A k \in 1..Len(found) :
                  /\ found[k].Confidence
                        = TierOf(found[k].IsReachable, found[k].IsDeliverable)
                  /\ found[k].Confidence = "low" =>
                        (found[k].IsReachable = "safe" /\ ~found[k].IsDeliverable)
            /\ \A i \in 1..Len(outcomes) :
                  Kept(outcomes[i].IsReachable, outcomes[i].IsDeliverable) =>
                     \E k \in 1..Len(found) :
                        /\ found[k].Email = outcomes[i].Email
                        /\ found[k].Confidence
                              = TierOf(outcomes[i].IsReachable, outcomes[i].IsDeliverable)

\* C11 witness: the outcomes [{safe, true}, {risky, true}, {safe, false}]
\* have been given the tiers [high, medium, low]
C11_Witness ==
    /\ Ranked
    /\ Len(batchRet.result) = 3
    /\ batchRet.result[1].IsReachable = "safe" /\ batchRet.result[1].IsDeliverable
    /\ batchRet.result[2].IsReachable = "risky" /\ batchRet.result[2].IsDeliverable
    /\ batchRet.result[3].IsReachable = "safe" /\ ~batchRet.result[3].IsDeliverable
    /\ TiersOf(response.result.FoundEmails) = << "high", "medium", "low" >>
    /\ response.result.FoundEmails[3].Email = emails[3]

\* the place of a tier in the order high, medium, low
TierRank(tier) == IF tier = "high" THEN 1 ELSE IF tier = "medium" THEN 2 ELSE 3

\* the place in the candidate list of the candidate whose outcome the entry
\* carries (the outcomes are index-aligned to the candidates, and distinct)
CandidateIndex(entry) ==
    SetMin({ i \in 1..Len(batchRet.result) : Carried(batchRet.result[i]) = Carried(entry) })

\* C12: foundEmails is a stable 3-way partition of the kept outcomes: high
\* before medium before low, entries of one tier in the order of the
\* candidate list, and the entries are those of the kept outcomes, each once.
C12_StablePartition ==
    Ranked =>
        LET found == response.result.FoundEmails
            outcomes == batchRet.result
            keptAt == { i \in 1..Len(outcomes) :
                          Kept(outcomes[i].IsReachable, outcomes[i].IsDeliverable) }
        IN  /\ \A j, k \in 1..Len(found) :
                  j < k =>
                     /\ TierRank(found[j].Confidence) <= TierRank(found[k].Confidence)
                     /\ found[j].Confidence = found[k].Confidence =>
                           CandidateIndex(found[j]) < CandidateIndex(found[k])
            /\ Len(found) = Cardinality(keptAt)
            /\ \A i \in keptAt :
                  Cardinality({ k \in 1..Len(found) :
                                  Carried(found[k]) = Carried(outcomes[i]) }) = 1
            /\ \A k \in 1..Len(found) :
                  \E i \in keptAt : Carried(found[k]) = Carried(outcomes[i])

\* C12 witness: three kept outcomes of tiers low, high, low have been ranked
\* high, low, low, the two low ones in candidate order
C12_Witness ==
    /\ Ranked
    /\ Len(batchRet.result) = 3
    /\ \A i \in 1..3 : batchRet.result[i].IsReachable = "safe"
    /\ ~batchRet.result[1].IsDeliverable
    /\ batchRet.result[2].IsDeliverable
    /\ ~batchRet.result[3].IsDeliverable
    /\ TiersOf(response.result.FoundEmails) = << "high", "low", "low" >>
    /\ response.result.FoundEmails[2].Email = emails[1]
    /\ response.result.FoundEmails[3].Email = emails[3]

\* ------------------------------------------------------------------------
\* The empty organization (C16), checked under Spec
\* ------------------------------------------------------------------------

\* C16: an organization that is empty once trimmed resolves to
\* {domain "", resolved = false, method none}, and FindEmails answers
\* without error with domainResolved = false, no found email,
\* totalChecked = 0 and totalFound = 0.
C16_EmptyOrganization ==
    (call.op = "FindEmails" /\ fpc = "done" /\ TrimSpace(call.req.Company) = << >>) =>
        /\ domainResult.Domain = << >>
        /\ ~domainResult.Resolved
        /\ domainResult.Method = "none"
        /\ probes = << >>
        /\ response.err = NoErr
        /\ ~response.result.DomainResolved
        /\ response.result.Domain = << >>
        /\ response.result.FoundEmails = << >>
        /\ response.result.TotalChecked = 0
        /\ response.result.TotalFound = 0
        /\ bpc = "none"

\* C16 witness: FindEmails has returned for the organization " "
C16_Witness ==
    /\ call.op = "FindEmails"
    /\ fpc = "done"
    /\ call.req.Company = << " " >>
    /\ domainResult.Method = "none"
    /\ response.err = NoErr

\* ------------------------------------------------------------------------
\* SpecGen: GenerateEmailPatterns on its own, for the names and domains of
\* GenFirstNames, GenLastNames and GenDomains
\* ------------------------------------------------------------------------

\* a usual name, a one-letter name (its initial is the whole name), a name
\* to trim and lower-case, names with characters an email cannot carry, the
\* empty name, and a name of 62 letters (alone it fits the 64 characters of a
\* local part, joined to a last name it does not)
GenFirstNames ==
    { [ i \in 1..62 |-> "a" ],
      << "J", "o", "h", "n" >>, << "A" >>, << " ", "A", "l", " " >>, << "J", ".", "R" >>, << "M", "a", "r", "y", " ", "A", "n", "n" >>, << "O", "'", "N", "e", "i", "l" >>, << >> }

GenLastNames ==
    { << "D", "o", "e" >>, << "A" >>, << "J", "o", "h", "n" >>, << "\t", "W", "U" >>, << "d", "-", "e" >>, << " " >> }

GenDomains == { << "x", ".", "i", "o" >>, << " ", "A", "c", "m", "e", ".", "C", "O", "M" >>, << ".", "c", "o", "m" >> }

GenInit ==
    /\ verifierKind = "http"
    /\ concurrency = DefaultConcurrency
    /\ maxPatterns = 0
    /\ companyMap = NewCompanyMap
    /\ dns = NoDns
    /\ \E firstName \in GenFirstNames, lastName \in GenLastNames, d \in GenDomains :
          call = [ op |-> "GenerateEmailPatterns", firstName |-> firstName,
                   lastName |-> lastName, domain |-> d ]
    /\ fpc = "none"
    /\ bpc = "none"
    /\ BatchIdle
    /\ domain = << >>
    /\ patterns = << >>
    /\ response = NotReturned
    /\ single = NoCall
    /\ domainResult = NotReturned
    /\ probes = << >>
    /\ lastAdd = NoCall
    /\ mapMutex = FreeMutex
    /\ procs = << >>

\* generator.GenerateEmailPatterns(firstName, lastName, domain)
CallGenerateEmailPatterns ==
    /\ call.op = "GenerateEmailPatterns"
    /\ response = NotReturned
    /\ response' = Returned(GenerateEmailPatterns(call.firstName, call.lastName,
                                                  call.domain), NoErr)
    /\ UNCHANGED << configVars, resolveVars, fpc, domain, patterns, batchVars, single >>

GenNext == CallGenerateEmailPatterns

SpecGen == GenInit /\ [][GenNext]_vars

\* ------------------------------------------------------------------------
\* The generator (C20), checked under SpecGen
\* ------------------------------------------------------------------------

Generated == call.op = "GenerateEmailPatterns" /\ response # NotReturned

\* the raw pattern sequence of the call: the 20 base rows, the rows of the
\* digits 0-9, the rows of the numbers 1-50; empty when a normalized input is
\* empty
RawOfCall ==
    LET f == TrimSpace(ToLower(call.firstName))
        l == TrimSpace(ToLower(call.lastName))
        d == TrimSpace(ToLower(call.domain))
    IN  IF f = << >> \/ l = << >> \/ d = << >> THEN << >>
        ELSE RawPatternList(f, l, << f[1] >>, << l[1] >>, d)

\* the first row of the raw sequence that carries the email
FirstRow(raw, email) == SetMin({ i \in 1..Len(raw) : raw[i].Email = email })

\* C20: the list GenerateEmailPatterns returns has no email twice; each entry
\* is the first row of the raw sequence with its email, under that row's own
\* tag; the entries are in the order of the raw sequence; and every email of
\* the raw sequence that is a valid email is in the list.
C20_NoDuplicates ==
    Generated =>
        LET out == response.result
        IN  \E raw \in { RawOfCall } :
              /\ \A j, k \in 1..Len(out) : j # k => out[j].Email # out[k].Email
              /\ \A k \in 1..Len(out) :
                    /\ \E i \in 1..Len(raw) : raw[i].Email = out[k].Email
                    /\ out[k] = raw[FirstRow(raw, out[k].Email)]
              /\ \A j, k \in 1..Len(out) :
                    j < k => FirstRow(raw, out[j].Email) < FirstRow(raw, out[k].Email)
              /\ \A i \in 1..Len(raw) :
                    isValidEmailFormat(raw[i].Email) =>
                       \E k \in 1..Len(out) : out[k].Email = raw[i].Email

\* C20 witness: for a one-letter first name the rows firstname.lastname and
\* f.lastname carry the same email; the returned list has it once, as
\* firstname.lastname, and is shorter than the raw sequence
C20_Witness ==
    /\ Generated
    /\ call.firstName = << "A" >>
    /\ call.lastName = << "D", "o", "e" >>
    /\ RawOfCall[1].Email = RawOfCall[3].Email
    /\ RawOfCall[1].Pattern # RawOfCall[3].Pattern
    /\ Len(response.result) >= 1
    /\ response.result[1] = RawOfCall[1]
    /\ \A k \in 2..Len(response.result) : response.result[k].Email # RawOfCall[1].Email
    /\ Len(response.result) < Len(RawOfCall)

\* ------------------------------------------------------------------------
\* The validity of the generated emails (C21), checked under SpecGen
\* ------------------------------------------------------------------------

\* the format the claim describes, character by character: exactly one "@";
\* a local part of 1..64 characters among letters, digits, ".", "_", "-",
\* "+"; a domain of at most 253 characters made of two or more non-empty
\* labels of letters, digits and "-", separated by ".", with no "." at
\* either end
WellFormedAddress(email) ==
    LET ats == { i \in 1..Len(email) : email[i] = "@" }
    IN  /\ Cardinality(ats) = 1
        /\ LET at == SetMin(ats)
                local == SubSeq(email, 1, at - 1)
                host == SubSeq(email, at + 1, Len(email))
            IN  /\ Len(local) \in 1..64
                /\ \A i \in 1..Len(local) :
                      \/ local[i] \in LowerLetters \cup UpperLetters \cup Digits
                      \/ local[i] \in { ".", "_", "-", "+" }
                /\ Len(host) \in 1..253
                /\ \E i \in 1..Len(host) : host[i] = "."
                /\ host[1] # "." /\ host[Len(host)] # "."
                /\ \A i \in 1..(Len(host) - 1) : ~(host[i] = "." /\ host[i + 1] = ".")
                /\ \A i \in 1..Len(host) :
                      \/ host[i] \in LowerLetters \cup UpperLetters \cup Digits
                      \/ host[i] \in { "-", "." }

\* C21: every email GenerateEmailPatterns returns is non-empty, passes
\* isValidEmailFormat and has the format the validator stands for, whatever
\* the names and the domain.
C21_GeneratedValid ==
    Generated =>
        \A k \in 1..Len(response.result) :
            /\ Len(response.result[k].Email) > 0
            /\ isValidEmailFormat(response.result[k].Email)
            /\ WellFormedAddress(response.result[k].Email)

\* C21 witness: for a first name with an apostrophe the generator has
\* returned some emails, and has left out the rows that carry the apostrophe
C21_Witness ==
    /\ Generated
    /\ \E i \in 1..Len(call.firstName) : call.firstName[i] = "'"
    /\ Len(response.result) >= 1
    /\ Len(RawOfCall) >= 1
    /\ ~WellFormedAddress(RawOfCall[1].Email)
    /\ \A k \in 1..Len(response.result) :
          \A i \in 1..Len(response.result[k].Email) : response.result[k].Email[i] # "'"

\* ------------------------------------------------------------------------
\* The normalization of the generator's inputs (C22), checked under SpecGen
\* ------------------------------------------------------------------------

\* an input with its upper-case letters lowered and the white space at its
\* ends removed, written without the operators of the model of the code
Normalized(s) ==
    LET low == [ i \in 1..Len(s) |->
                   IF \E k \in 1..Len(UpperSeq) : UpperSeq[k] = s[i]
                   THEN LowerSeq[CHOOSE k \in 1..Len(UpperSeq) : UpperSeq[k] = s[i]]
                   ELSE s[i] ]
        inked == { i \in 1..Len(low) : low[i] \notin Whitespace }
    IN  IF inked = {} THEN << >> ELSE SubSeq(low, SetMin(inked), SetMax(inked))

\* C22: GenerateEmailPatterns returns the empty list whenever the first name,
\* the last name or the domain is empty once trimmed and lower-cased
\* (white-space-only inputs included); otherwise every returned email is a
\* local part followed by "@" and the normalized domain, has no upper-case
\* letter, and its local part is made of characters of the normalized names,
\* the separators ".", "_", "-" and digits, starting with the first character
\* of a normalized name.
C22_NormalizedInputs ==
    Generated =>
        LET f == Normalized(call.firstName)
            l == Normalized(call.lastName)
            d == Normalized(call.domain)
            out == response.result
        IN  /\ response.err = NoErr
            /\ (f = << >> \/ l = << >> \/ d = << >>) => out = << >>
            /\ \A k \in 1..Len(out) :
                  LET email == out[k].Email
                      n == Len(email) - Len(d) - 1
                  IN  /\ n >= 1
                      /\ SubSeq(email, n + 1, Len(email)) = << "@" >> \o d
                      /\ \A i \in 1..Len(email) : email[i] \notin UpperLetters
                      /\ email[1] \in { f[1], l[1] }
                      /\ \A i \in 1..n :
                            email[i] \in Range(f) \cup Range(l) \cup Digits
                                         \cup { ".", "_", "-" }

\* C22 witness: for " Al ", a tab and "WU", " Acme.COM" the generator has
\* returned al.wu@acme.com first
C22_Witness ==
    /\ Generated
    /\ call.firstName = << " ", "A", "l", " " >>
    /\ call.lastName = << "\t", "W", "U" >>
    /\ call.domain = << " ", "A", "c", "m", "e", ".", "C", "O", "M" >>
    /\ Len(response.result) >= 1
    /\ response.result[1].Email
          = << "a", "l", ".", "w", "u", "@", "a", "c", "m", "e", ".", "c", "o", "m" >>

\* ------------------------------------------------------------------------
\* SpecLock: goroutines calling one DomainResolver concurrently. Each call is
\* cut at its lock operations and at its access to companyMap. RLock is
\* granted whenever no writer holds the lock: sync.RWMutex also holds back
\* new readers while a writer waits, which only removes behaviours.
\* ------------------------------------------------------------------------

\* the number of concurrent calls
MaxCalls == 3

Proc(op, arg, d) ==
    [ op |-> op, arg |-> arg, domain |-> d, pc |-> "start", seen |-> NotReturned,
      raced |-> FALSE, ret |-> NotReturned ]

\* the calls a goroutine makes: lookups of "acme" under two spellings, a
\* ResolveDomain that returns before the lookup, and adds for "acme"
LockCalls ==
    { Proc("GetCompanyDomain", << "A", "c", "m", "e", " ", "I", "n", "c" >>, << >>),
      Proc("ResolveDomain", << "a", "c", "m", "e" >>, << >>),
      Proc("ResolveDomain", << "x", ".", "c", "o", "m" >>, << >>) }
    \cup { Proc("AddCompanyDomain", << "A", "C", "M", "E", " ", "C", "o", "r", "p", "." >>, d) :
             d \in AddDomains }

LockInit ==
    /\ verifierKind = "http"
    /\ concurrency = DefaultConcurrency
    /\ maxPatterns = 0
    /\ companyMap = NewCompanyMap
    /\ dns = NoDns
    /\ call = [ op |-> "concurrent" ]
    /\ fpc = "none"
    /\ bpc = "none"
    /\ BatchIdle
    /\ domain = << >>
    /\ patterns = << >>
    /\ response = NotReturned
    /\ single = NoCall
    /\ domainResult = NotReturned
    /\ probes = << >>
    /\ lastAdd = NoCall
    /\ mapMutex = FreeMutex
    /\ procs \in [ 1..MaxCalls -> LockCalls ]

lockFrame ==
    << configVars, findVars, batchVars, single, domainResult, probes, lastAdd >>

\* the goroutines between Lock and Unlock, and between RLock and RUnlock
Writing == { p \in 1..Len(procs) : procs[p].pc \in { "locked", "writing", "written" } }
Reading == { p \in 1..Len(procs) : procs[p].pc \in { "rlocked", "read" } }

\* ResolveDomain up to its call of GetCompanyDomain (lines 594-620): the empty
\* name and the direct domain return here
ResolveEnter(p) ==
    /\ procs[p].op = "ResolveDomain"
    /\ procs[p].pc = "start"
    /\ LET companyName == TrimSpace(ToLower(procs[p].arg))
       IN  IF companyName = << >> \/ isDomain(companyName)
           THEN procs' = [ procs EXCEPT ![p].pc = "done",
                             ![p].ret = ResolveDomain(procs[p].arg, companyMap, dns) ]
           ELSE procs' = [ procs EXCEPT ![p].pc = "lookup" ]
    /\ UNCHANGED << lockFrame, companyMap, mapMutex >>

\* r.mapMutex.RLock() goes through when no goroutine holds the write lock
CanRLock(m) == m.w = 0

RLock(p) ==
    /\ \/ procs[p].op = "GetCompanyDomain" /\ procs[p].pc = "start"
       \/ procs[p].op = "ResolveDomain" /\ procs[p].pc = "lookup"
    /\ CanRLock(mapMutex)
    /\ mapMutex' = [ mapMutex EXCEPT !.r = @ \cup { p } ]
    /\ procs' = [ procs EXCEPT ![p].pc = "rlocked" ]
    /\ UNCHANGED << lockFrame, companyMap >>

\* what a map read that overlaps a map write may yield besides the old and
\* the new value (the race is undefined behaviour in Go)
Torn == [ domain |-> << "?" >>, exists |-> TRUE ]

\* the two values GetCompanyDomain returns, as the goroutine holds them
Lookup(m, companyName) ==
    [ domain |-> GetCompanyDomain(m, companyName)[1],
      exists |-> GetCompanyDomain(m, companyName)[2] ]

\* lines 587-588: the read of companyMap. A read made while another goroutine
\* is inside its write is a data race, with any outcome.
ReadMap(p) ==
    /\ procs[p].pc = "rlocked"
    /\ LET writers == { q \in 1..Len(procs) : procs[q].pc = "writing" }
           outcomes ==
               { Lookup(companyMap, procs[p].arg) }
               \cup (IF writers = {} THEN {} ELSE { Torn })
               \cup { Lookup(AddCompanyDomain(companyMap, procs[q].arg, procs[q].domain),
                             procs[p].arg) : q \in writers }
       IN  \E v \in outcomes :
              procs' = [ procs EXCEPT ![p].pc = "read", ![p].seen = v,
                                      ![p].raced = (writers # {}) ]
    /\ UNCHANGED << lockFrame, companyMap, mapMutex >>

\* the deferred r.mapMutex.RUnlock(); GetCompanyDomain returns what it read
RUnlock(p) ==
    /\ procs[p].pc = "read"
    /\ mapMutex' = [ mapMutex EXCEPT !.r = @ \ { p } ]
    /\ procs' = IF procs[p].op = "GetCompanyDomain"
                THEN [ procs EXCEPT ![p].pc = "done", ![p].ret = procs[p].seen ]
                ELSE [ procs EXCEPT ![p].pc = "looked" ]
    /\ UNCHANGED << lockFrame, companyMap >>

\* ResolveDomain from the return of GetCompanyDomain on (lines 623-667): the
\* rest of the call depends on the directory through that lookup only
ResolveLeave(p) ==
    /\ procs[p].op = "ResolveDomain"
    /\ procs[p].pc = "looked"
    /\ LET found == IF procs[p].seen.exists
                    THEN { << normalizeCompanyName(TrimSpace(ToLower(procs[p].arg))),
                              procs[p].seen.domain >> }
                    ELSE {}
       IN  procs' = [ procs EXCEPT ![p].pc = "done",
                        ![p].ret = ResolveDomain(procs[p].arg, found, dns) ]
    /\ UNCHANGED << lockFrame, companyMap, mapMutex >>

\* (mutant) the write lock is granted while read locks are held
CanLockDespiteReaders(m) == m.w = 0

\* r.mapMutex.Lock() goes through when no goroutine holds the lock in either
\* mode
CanLock(m) == m.w = 0 /\ m.r = {}

Lock(p) ==
    /\ procs[p].op = "AddCompanyDomain"
    /\ procs[p].pc = "start"
    /\ CanLock(mapMutex)
    /\ mapMutex' = [ mapMutex EXCEPT !.w = p ]
    /\ procs' = [ procs EXCEPT ![p].pc = "locked" ]
    /\ UNCHANGED << lockFrame, companyMap >>

\* line 575: the map assignment begins ...
WriteBegin(p) ==
    /\ procs[p].pc = "locked"
    /\ procs' = [ procs EXCEPT ![p].pc = "writing" ]
    /\ UNCHANGED << lockFrame, companyMap, mapMutex >>

\* ... and is done
WriteEnd(p) ==
    /\ procs[p].pc = "writing"
    /\ companyMap' = AddCompanyDomain(companyMap, procs[p].arg, procs[p].domain)
    /\ procs' = [ procs EXCEPT ![p].pc = "written" ]
    /\ UNCHANGED << verifierKind, concurrency, maxPatterns, dns, call, findVars,
                    batchVars, single, domainResult, probes, lastAdd, mapMutex >>

\* the deferred r.mapMutex.Unlock()
Unlock(p) ==
    /\ procs[p].pc = "written"
    /\ mapMutex' = [ mapMutex EXCEPT !.w = 0 ]
    /\ procs' = [ procs EXCEPT ![p].pc = "done" ]
    /\ UNCHANGED << lockFrame, companyMap >>

LockNext ==
    \/ \E p \in 1..Len(procs) : ResolveEnter(p)
    \/ \E p \in 1..Len(procs) : RLock(p)
    \/ \E p \in 1..Len(procs) : ReadMap(p)
    \/ \E p \in 1..Len(procs) : RUnlock(p)
    \/ \E p \in 1..Len(procs) : ResolveLeave(p)
    \/ \E p \in 1..Len(procs) : Lock(p)
    \/ \E p \in 1..Len(procs) : WriteBegin(p)
    \/ \E p \in 1..Len(procs) : WriteEnd(p)
    \/ \E p \in 1..Len(procs) : Unlock(p)

SpecLock == LockInit /\ [][LockNext]_vars

\* ------------------------------------------------------------------------
\* The lock of the directory (C23), checked under SpecLock
\* ------------------------------------------------------------------------

\* C23: under any interleaving of ResolveDomain / GetCompanyDomain calls and
\* AddCompanyDomain calls, no goroutine is between RLock and RUnlock while
\* another is between Lock and Unlock, and no two are between Lock and Unlock;
\* no read of the directory overlapped a write, every lookup saw the
\* directory as it stands for the whole time the read lock is held (so
\* entirely before or entirely after each add); and no goroutine holds both
\* locks or takes the write lock while it holds the read lock.
C23_DirectoryLock ==
    /\ Cardinality(Writing) <= 1
    /\ Writing # {} => Reading = {}
    /\ mapMutex.r = Reading
    /\ mapMutex.w = (IF Writing = {} THEN 0 ELSE SetMin(Writing))
    /\ mapMutex.w \notin mapMutex.r
    /\ \A p \in 1..Len(procs) :
          /\ ~procs[p].raced
          /\ procs[p].seen # Torn
          /\ procs[p].pc = "read" =>
                procs[p].seen = [ domain |-> GetCompanyDomain(companyMap, procs[p].arg)[1],
                                  exists |-> GetCompanyDomain(companyMap, procs[p].arg)[2] ]
          /\ procs[p].op = "AddCompanyDomain" => procs[p].seen = NotReturned
          /\ (procs[p].op = "ResolveDomain" /\ procs[p].pc = "done"
                /\ procs[p].seen # NotReturned /\ procs[p].seen.exists) =>
                procs[p].ret = DomainResult(procs[p].seen.domain, TRUE, "company_map", << >>)

\* C23 witness: two goroutines hold the read lock at once, one having read
\* the value a finished add stored, while the directory holds that value
C23_Witness ==
    /\ call.op = "concurrent"
    /\ Cardinality(Reading) >= 2
    /\ \E p \in Reading, q \in 1..Len(procs) :
          /\ procs[p].pc = "read"
          /\ procs[q].op = "AddCompanyDomain"
          /\ procs[q].pc = "done"
          /\ procs[p].seen = [ domain |-> procs[q].domain, exists |-> TRUE ]

\* ------------------------------------------------------------------------
\* No retries (C24), checked under Spec
\* ------------------------------------------------------------------------

\* C24: within one VerifyEmailsBatch invocation the oracle is called at most
\* once per candidate at any moment, and exactly once per candidate when the
\* batch has returned, also after a timeout or an error; the unknown outcome
\* stored for a failed call is the one the batch returns.
C24_ExactlyOnce ==
    /\ \A i \in Tasks :
          /\ Len(oracleLog[i]) <= 1
          /\ Len(oracleLog[i]) = 1 <=> tpc[i] \in { "written", "released", "done" }
          /\ (Len(oracleLog[i]) = 1 /\ oracleLog[i][1].kind \in FailureKinds) =>
                /\ results[i].IsReachable = "unknown"
                /\ results[i].Email = emails[i]
    /\ (bpc = "returned" /\ emails # << >>) =>
          /\ Len(oracleLog) = Len(emails)
          /\ \A i \in 1..Len(emails) :
                /\ Len(oracleLog[i]) = 1
                /\ oracleLog[i][1].kind \in FailureKinds =>
                      /\ batchRet.result[i].IsReachable = "unknown"
                      /\ batchRet.result[i].Email = emails[i]

\* C24 witness: a batch has returned in which the call for one candidate
\* timed out and the call for another could not be made, each made once
C24_Witness ==
    /\ bpc = "returned"
    /\ Len(emails) >= 2
    /\ \E i, j \in 1..Len(emails) :
          /\ i # j
          /\ oracleLog[i] = << oracleLog[i][1] >>
          /\ oracleLog[i][1].kind = "timeout"
          /\ oracleLog[j][1].kind \in { "dispatch_error", "exec_error" }
          /\ batchRet.result[i].IsReachable = "unknown"

\* ------------------------------------------------------------------------
\* The candidate domains and their probing (C25, C26, C30), checked under
\* SpecResolve
\* ------------------------------------------------------------------------

\* the words of the organization name, each reduced to its lower-case letters
\* and digits
WordsOf(name) ==
    LET words == Fields(name)
    IN  [ k \in 1..Len(words) |->
            SelectSeq(words[k], LAMBDA c : c \in LowerLetters \cup Digits) ]

\* the ResolveDomain call went as far as the candidate list
Probed == Resolving /\ domainResult.Method \in { "dns_verified", "pattern" }

\* C25 as stated: for a name of several words (once its legal suffix is
\* removed) that is neither a domain nor in the directory, the candidate list holds, after the base token crossed
\* with the TLDs, the first word and the first two words joined, each crossed
\* with the TLDs in order.
C25_Original ==
    (Probed /\ Len(WordsOf(normalizeCompanyName(Org))) >= 2
        /\ \A k \in 1..Len(WordsOf(normalizeCompanyName(Org))) :
              WordsOf(normalizeCompanyName(Org))[k] # << >>) =>
        LET words == WordsOf(normalizeCompanyName(Org))
            listed == { domainResult.Candidates[k] :
                          k \in 1..Len(domainResult.Candidates) }
        IN  \A k \in 1..Len(Tlds) :
               /\ words[1] \o << "." >> \o Tlds[k] \in listed
               /\ words[1] \o words[2] \o << "." >> \o Tlds[k] \in listed

\* a domain has a record of some kind
HasRecord(d) == d \in dns.mx \/ d \in dns.host \/ d \in dns.cname

\* C26: the candidates are probed one after the other in list order: the
\* probes are a prefix of the candidate list, every probe but the last found
\* no record of any kind, each probe asks for MX, then the address, then the
\* CNAME and stops at the first that answers; a dns_verified domain is the
\* last probe and the earliest candidate with any record; with no such
\* candidate every candidate is probed and the method is pattern.
C26_SequentialProbing ==
    Probed =>
        LET cands == domainResult.Candidates
            n == Len(probes)
        IN  /\ n \in 1..Len(cands)
            /\ probes = SubSeq(cands, 1, n)
            /\ \A k \in 1..(n - 1) : ~HasRecord(probes[k])
            /\ \A k \in 1..n :
                  LET asked == LookupsOf(probes[k], dns)
                  IN  /\ asked = SubSeq(<< "mx", "host", "cname" >>, 1, Len(asked))
                      /\ "host" \in Range(asked) => probes[k] \notin dns.mx
                      /\ "cname" \in Range(asked) => probes[k] \notin dns.host
                      /\ Len(asked) < 3 => HasRecord(probes[k])
            /\ domainResult.Method = "dns_verified" =>
                  /\ domainResult.Domain = probes[n]
                  /\ HasRecord(probes[n])
                  /\ \A k \in 1..Len(cands) : HasRecord(cands[k]) => k >= n
            /\ domainResult.Method = "pattern" =>
                  /\ n = Len(cands)
                  /\ \A k \in 1..Len(cands) : ~HasRecord(cands[k])

\* C26 witness: "Acme" has been resolved to acme.io, its second candidate,
\* found by its address after acme.com gave nothing, although acme.co has an
\* MX record and acme.net a CNAME
C26_Witness ==
    /\ Probed
    /\ domainResult.Method = "dns_verified"
    /\ probes = << << "a", "c", "m", "e", ".", "c", "o", "m" >>,
                   << "a", "c", "m", "e", ".", "i", "o" >> >>
    /\ LookupsOf(probes[2], dns) = << "mx", "host" >>
    /\ << "a", "c", "m", "e", ".", "c", "o" >> \in dns.mx
    /\ domainResult.Domain = << "a", "c", "m", "e", ".", "i", "o" >>

\* C30 as stated: a dns_verified or pattern domain is token.tld with a
\* non-empty token of lower-case letters and digits and a TLD of the list,
\* whatever the organization.
C30_Original ==
    Probed =>
        \E k \in 1..Len(Tlds) :
           LET n == Len(domainResult.Domain) - Len(Tlds[k]) - 1
           IN  /\ n >= 1
               /\ SubSeq(domainResult.Domain, n + 1, Len(domainResult.Domain))
                     = << "." >> \o Tlds[k]
               /\ \A i \in 1..n : domainResult.Domain[i] \in LowerLetters \cup Digits

\* ------------------------------------------------------------------------
\* The semaphore slots (C28), checked under Spec
\* ------------------------------------------------------------------------

\* the goroutines that have given their slot back
Ended == { i \in Tasks : tpc[i] \in { "released", "done" } }

\* C28: no slot leaks. A task makes its oracle call only while it holds a
\* slot, which it took before the call; it holds none before and none after
\* its end, whether its call succeeded, failed or timed out; the channel
\* holds one element per task between acquire and release, and is empty when
\* the batch returns.
C28_NoSlotLeak ==
    /\ semaphore \in 0..concurrency
    /\ semaphore = Cardinality({ i \in Tasks : tpc[i] \in { "acquired", "written" } })
    /\ semaphore + Cardinality(Ended)
          + Cardinality({ i \in Tasks : tpc[i] \in { "unborn", "start" } }) = Len(tpc)
    /\ \A i \in Tasks :
          /\ tpc[i] \in { "unborn", "start", "acquired" } => oracleLog[i] = << >>
          /\ tpc[i] \in { "written", "released", "done" } => Len(oracleLog[i]) = 1
    /\ bpc = "returned" =>
          /\ semaphore = 0
          /\ Ended = Tasks

\* C28 witness: a batch with more candidates than slots has returned with an
\* empty channel, after a call that timed out, a call that could not be made
\* and a call that was answered
C28_Witness ==
    /\ bpc = "returned"
    /\ semaphore = 0
    /\ Len(emails) > concurrency
    /\ Len(oracleLog) = 3
    /\ \E i, j, k \in 1..3 :
          /\ oracleLog[i][1].kind = "timeout"
          /\ oracleLog[j][1].kind \in { "dispatch_error", "exec_error" }
          /\ ~OracleFailed(oracleLog[k][1])

\* ------------------------------------------------------------------------
\* What FindEmails reports (C27, C29), checked under SpecFind
\* ------------------------------------------------------------------------

\* C27 as stated: every entry of foundEmails carries the email of a submitted
\* candidate and the non-empty tag the generator gave that candidate,
\* whatever the oracle echoes in its answer.
C27_Original ==
    Ranked =>
        \A k \in 1..Len(response.result.FoundEmails) :
            \E i \in 1..Len(patterns) :
               /\ response.result.FoundEmails[k].Email = patterns[i].Email
               /\ response.result.FoundEmails[k].Pattern = patterns[i].Pattern
               /\ response.result.FoundEmails[k].Pattern # NoPattern

\* the generator output for the request and the resolved domain, and the
\* candidates to verify: its first maxPatterns entries when maxPatterns > 0 and
\* there are more, all of them otherwise
GeneratedForCall ==
    GenerateEmailPatterns(call.req.FirstName, call.req.LastName, domainResult.Domain)

ToVerify(generated) ==
    IF maxPatterns > 0 /\ Len(generated) > maxPatterns
    THEN [ k \in 1..maxPatterns |-> generated[k].Email ]
    ELSE [ k \in 1..Len(generated) |-> generated[k].Email ]

\* C29: the emails handed to the batch are those of ToVerify, in generator
\* order; a response without a batch reports 0 checked, and then the domain
\* did not resolve or there was nothing to verify; every successful response
\* has totalFound = the length of foundEmails <= totalChecked, and
\* totalChecked = the number of emails handed over = the number of candidates
\* the oracle was asked about.
C29_Totals ==
    /\ (call.op = "FindEmails" /\ fpc = "verifying" /\ bpc = "entry") =>
          /\ emails = ToVerify(GeneratedForCall)
          /\ emails # << >>
    /\ (call.op = "FindEmails" /\ fpc = "done" /\ bpc = "none") =>
          /\ response.result.TotalChecked = 0
          /\ response.result.TotalFound = 0
          /\ response.result.FoundEmails = << >>
          /\ response.result.DomainResolved => ToVerify(GeneratedForCall) = << >>
    /\ (call.op = "FindEmails" /\ fpc = "done" /\ bpc = "returned") =>
          /\ response.err = NoErr
          /\ response.result.TotalFound = Len(response.result.FoundEmails)
          /\ response.result.TotalFound <= response.result.TotalChecked
          /\ response.result.TotalChecked = Len(emails)
          /\ response.result.TotalChecked = Cardinality(OracleCalls)
          /\ maxPatterns > 0 => response.result.TotalChecked <= maxPatterns

\* C29 witness: without a limit FindEmails has verified the whole generator
\* output, more than MaxPatterns candidates, and found every one of them
C29_Witness ==
    /\ call.op = "FindEmails"
    /\ fpc = "done"
    /\ bpc = "returned"
    /\ maxPatterns = 0
    /\ response.result.TotalChecked > MaxPatterns
    /\ response.result.TotalChecked = Len(patterns)
    /\ response.result.TotalFound = response.result.TotalChecked

====
